---- MODULE Spec2Model ----
(***************************************************************************)
(* Model of the probe strategy engine of @supadata/media-probe:            *)
(* probeMedia (range -> HEAD -> GET fallback, retry loop with backoff),    *)
(* the error classes it raises, and the header parsers it uses.            *)
(***************************************************************************)
EXTENDS Integers, Sequences, FiniteSets, TLC

(***************************************************************************)
(* Bounds of the model.                                                    *)
(***************************************************************************)
MaxRetriesBound == 3
MaxFail == 7

(***************************************************************************)
(* Optional values (null | value).                                         *)
(***************************************************************************)
Null == [some |-> FALSE]
Some(x) == [some |-> TRUE, v |-> x]

(***************************************************************************)
(* errors.ts: the class hierarchy, as class name -> parent class.          *)
(***************************************************************************)
ErrorClasses ==
  {"ProbeError", "InvalidUrlError", "NetworkError", "TimeoutError",
   "MaxRetriesExceededError", "ClientError", "NotFoundError",
   "ForbiddenError", "UnauthorizedError", "ServerError"}

ParentClass ==
  [c \in ErrorClasses |->
     CASE c = "ProbeError" -> "Error"
       [] c = "InvalidUrlError" -> "ProbeError"
       [] c = "NetworkError" -> "ProbeError"
       [] c = "TimeoutError" -> "ProbeError"
       [] c = "MaxRetriesExceededError" -> "ProbeError"
       [] c = "ClientError" -> "NetworkError"
       [] c = "NotFoundError" -> "ClientError"
       [] c = "ForbiddenError" -> "ClientError"
       [] c = "UnauthorizedError" -> "ClientError"
       [] c = "ServerError" -> "NetworkError"]

RECURSIVE IsSubclass(_, _)
IsSubclass(c, d) ==
  IF c = d THEN TRUE
  ELSE IF c \notin ErrorClasses THEN FALSE
  ELSE IsSubclass(ParentClass[c], d)

\* error instanceof cls
InstanceOf(error, cls) == IsSubclass(error.cls, cls)

InvalidUrlError == [cls |-> "InvalidUrlError", code |-> "INVALID_URL", statusCode |-> Null]
NetworkError(statusCode) == [cls |-> "NetworkError", code |-> "NETWORK_ERROR", statusCode |-> statusCode]
TimeoutError == [cls |-> "TimeoutError", code |-> "TIMEOUT", statusCode |-> Null]
MaxRetriesExceededError == [cls |-> "MaxRetriesExceededError", code |-> "MAX_RETRIES_EXCEEDED", statusCode |-> Null]
ClientError(status) == [cls |-> "ClientError", code |-> "NETWORK_ERROR", statusCode |-> Some(status)]
NotFoundError == [cls |-> "NotFoundError", code |-> "NETWORK_ERROR", statusCode |-> Some(404)]
ForbiddenError == [cls |-> "ForbiddenError", code |-> "NETWORK_ERROR", statusCode |-> Some(403)]
UnauthorizedError == [cls |-> "UnauthorizedError", code |-> "NETWORK_ERROR", statusCode |-> Some(401)]
ServerError(status) == [cls |-> "ServerError", code |-> "NETWORK_ERROR", statusCode |-> Some(status)]

(***************************************************************************)
(* content-type.ts: header parsers.  A header value is a sequence of       *)
(* one-character strings, or Null when the header is absent.               *)
(***************************************************************************)
Digits == {"0", "1", "2", "3", "4", "5", "6", "7", "8", "9"}
WhiteSpace == {" ", "\t"}

DigitValue(c) ==
  CASE c = "0" -> 0 [] c = "1" -> 1 [] c = "2" -> 2 [] c = "3" -> 3
    [] c = "4" -> 4 [] c = "5" -> 5 [] c = "6" -> 6 [] c = "7" -> 7
    [] c = "8" -> 8 [] c = "9" -> 9

\* the /i flag, over the letters of the unit token
LowerCase(c) ==
  CASE c = "B" -> "b" [] c = "Y" -> "y" [] c = "T" -> "t"
    [] c = "E" -> "e" [] c = "S" -> "s" [] OTHER -> c

RECURSIVE DecimalValue(_)
DecimalValue(ds) ==
  IF ds = <<>> THEN 0
  ELSE 10 * DecimalValue(SubSeq(ds, 1, Len(ds) - 1)) + DigitValue(ds[Len(ds)])

\* first index >= i whose character is outside cls (Len(s)+1 if none)
RECURSIVE RunEnd(_, _, _)
RunEnd(s, i, cls) ==
  IF i > Len(s) \/ s[i] \notin cls THEN i ELSE RunEnd(s, i + 1, cls)

CharAt(s, i) == IF i >= 1 /\ i <= Len(s) THEN s[i] ELSE ""

BytesWord == <<"b", "y", "t", "e", "s">>

\* the match of /bytes\s+\d+-\d+\/(\d+)/i starting at index i: the captured
\* group, or Null when the pattern does not match there
ContentRangeMatchAt(s, i) ==
  LET a == i + 5
      b == RunEnd(s, a, WhiteSpace)
      c == RunEnd(s, b, Digits)
      d == c + 1
      e == RunEnd(s, d, Digits)
      f == e + 1
      g == RunEnd(s, f, Digits)
  IN IF /\ \A k \in 1..5 : LowerCase(CharAt(s, i + k - 1)) = BytesWord[k]
        /\ b > a
        /\ c > b
        /\ CharAt(s, c) = "-"
        /\ e > d
        /\ CharAt(s, e) = "/"
        /\ g > f
     THEN Some(SubSeq(s, f, g - 1))
     ELSE Null

ExtractSizeFromContentRange(contentRange) ==
  IF ~contentRange.some \/ contentRange.v = <<>> THEN Null
  ELSE LET s == contentRange.v
           starts == {i \in 1..Len(s) : ContentRangeMatchAt(s, i).some}
       IN IF starts = {} THEN Null
          ELSE LET i0 == CHOOSE i \in starts : \A j \in starts : i <= j
               IN Some(DecimalValue(ContentRangeMatchAt(s, i0).v))

\* parseInt(contentLength, 10): leading white space, an optional sign, then
\* the longest run of digits; NaN (Null here) when there is no digit
ExtractSizeFromContentLength(contentLength) ==
  IF ~contentLength.some \/ contentLength.v = <<>> THEN Null
  ELSE LET s == contentLength.v
           a == RunEnd(s, 1, WhiteSpace)
           neg == CharAt(s, a) = "-"
           b == IF CharAt(s, a) \in {"-", "+"} THEN a + 1 ELSE a
           c == RunEnd(s, b, Digits)
       IN IF c = b THEN Null
          ELSE IF neg THEN Some(0 - DecimalValue(SubSeq(s, b, c - 1)))
          ELSE Some(DecimalValue(SubSeq(s, b, c - 1)))

(***************************************************************************)
(* Strings are sequences of one-character strings; the string methods the  *)
(* code calls are computed on them.                                        *)
(***************************************************************************)
UpperLetters ==
  <<"A", "B", "C", "D", "E", "F", "G", "H", "I", "J", "K", "L", "M",
    "N", "O", "P", "Q", "R", "S", "T", "U", "V", "W", "X", "Y", "Z">>
LowerLetters ==
  <<"a", "b", "c", "d", "e", "f", "g", "h", "i", "j", "k", "l", "m",
    "n", "o", "p", "q", "r", "s", "t", "u", "v", "w", "x", "y", "z">>

\* the lower-case letter of each upper-case letter
LowerOf ==
  [c \in {UpperLetters[i] : i \in 1..26} |->
     LowerLetters[CHOOSE i \in 1..26 : UpperLetters[i] = c]]

ToLowerChar(c) == IF c \in DOMAIN LowerOf THEN LowerOf[c] ELSE c

\* String.prototype.toLowerCase
ToLowerCase(s) == [i \in 1..Len(s) |-> ToLowerChar(s[i])]

\* index of the first occurrence of character c at or after from, 0 if none
\* the index of the first occurrence of c in s[lo..hi], 0 if none; the range is
\* searched by halves, which keeps the evaluation shallow
RECURSIVE IndexIn(_, _, _, _)
IndexIn(s, c, lo, hi) ==
  IF lo > hi THEN 0
  ELSE IF lo = hi THEN (IF s[lo] = c THEN lo ELSE 0)
  ELSE LET left == IndexIn(s, c, lo, (lo + hi) \div 2)
       IN IF left # 0 THEN left ELSE IndexIn(s, c, (lo + hi) \div 2 + 1, hi)

IndexOf(s, c, from) == IndexIn(s, c, from, Len(s))

\* s.split(c)[0]
BeforeFirst(s, c) ==
  IF IndexOf(s, c, 1) = 0 THEN s ELSE SubSeq(s, 1, IndexOf(s, c, 1) - 1)

\* the part of s after the first c (empty when c does not occur)
AfterFirst(s, c) ==
  IF IndexOf(s, c, 1) = 0 THEN <<>> ELSE SubSeq(s, IndexOf(s, c, 1) + 1, Len(s))

\* s.split(c)
RECURSIVE Split(_, _)
Split(s, c) ==
  IF IndexOf(s, c, 1) = 0 THEN <<s>>
  ELSE <<BeforeFirst(s, c)>> \o Split(AfterFirst(s, c), c)

\* String.prototype.trim
RECURSIVE TrimEnd(_)
TrimEnd(s) ==
  IF s # <<>> /\ s[Len(s)] \in WhiteSpace THEN TrimEnd(SubSeq(s, 1, Len(s) - 1))
  ELSE s

Trim(s) == TrimEnd(SubSeq(s, RunEnd(s, 1, WhiteSpace), Len(s)))

\* String.prototype.includes
Includes(s, sub) ==
  \E i \in 1..(Len(s) - Len(sub) + 1) : SubSeq(s, i, i + Len(sub) - 1) = sub

StartsWith(s, prefix) ==
  Len(s) >= Len(prefix) /\ SubSeq(s, 1, Len(prefix)) = prefix

\* a string, or null, used as a condition
TruthyString(value) == value.some /\ value.v # <<>>

(***************************************************************************)
(* content-type.ts: media classification and content-type normalization.   *)
(***************************************************************************)
VideoSlash == <<"v", "i", "d", "e", "o", "/">>
AudioSlash == <<"a", "u", "d", "i", "o", "/">>

\* VIDEO_PATTERNS.mimeTypes, the alternatives after video/
VideoMimeSubtypes ==
  {<<"m", "p", "4">>,
   <<"w", "e", "b", "m">>,
   <<"q", "u", "i", "c", "k", "t", "i", "m", "e">>,
   <<"x", "-", "m", "s", "v", "i", "d", "e", "o">>,
   <<"x", "-", "m", "a", "t", "r", "o", "s", "k", "a">>,
   <<"o", "g", "g">>,
   <<"m", "p", "e", "g">>,
   <<"x", "-", "f", "l", "v">>,
   <<"3", "g", "p", "p">>,
   <<"x", "-", "m", "s", "-", "w", "m", "v">>}

\* VIDEO_PATTERNS.extensions
VideoExtensions ==
  {<<"m", "p", "4">>,
   <<"w", "e", "b", "m">>,
   <<"m", "o", "v">>,
   <<"a", "v", "i">>,
   <<"m", "k", "v">>,
   <<"o", "g", "v">>,
   <<"m", "p", "g">>,
   <<"m", "p", "e", "g">>,
   <<"m", "4", "v">>,
   <<"f", "l", "v">>,
   <<"3", "g", "p">>,
   <<"w", "m", "v">>}

\* AUDIO_PATTERNS.mimeTypes, the alternatives after audio/
AudioMimeSubtypes ==
  {<<"m", "p", "e", "g">>,
   <<"m", "p", "4">>,
   <<"w", "a", "v">>,
   <<"w", "e", "b", "m">>,
   <<"o", "g", "g">>,
   <<"f", "l", "a", "c">>,
   <<"a", "a", "c">>,
   <<"x", "-", "m", "4", "a">>,
   <<"x", "-", "w", "a", "v">>,
   <<"x", "-", "f", "l", "a", "c">>}

\* AUDIO_PATTERNS.extensions
AudioExtensions ==
  {<<"m", "p", "3">>,
   <<"m", "4", "a">>,
   <<"w", "a", "v">>,
   <<"w", "e", "b", "m">>,
   <<"o", "g", "g">>,
   <<"f", "l", "a", "c">>,
   <<"a", "a", "c">>,
   <<"o", "p", "u", "s">>}

\* the MIME test without its prefix: any type whose subtype is listed
MimeTestAnyPrefix(s, prefix, subtypes) ==
  \E sub \in subtypes :
    LET t == ToLowerCase(s) IN
    /\ Len(t) > Len(sub)
    /\ SubSeq(t, Len(t) - Len(sub), Len(t)) = <<"/">> \o sub

\* /^<prefix>(<subtypes>)$/i.test(s)
MimeTest(s, prefix, subtypes) ==
  \E sub \in subtypes : ToLowerCase(s) = prefix \o sub

\* /\.(<extensions>)(\?.*)?$/i.test(s): a dot and an extension, followed by
\* the end of the string or by a question mark
ExtensionTest(s, extensions) ==
  \E i \in {j \in 1..Len(s) : s[j] = "."} : \E ext \in extensions :
    LET last == i + Len(ext) IN
    /\ last <= Len(s)
    /\ \A k \in 1..Len(ext) : ToLowerChar(s[i + k]) = ext[k]
    /\ (last = Len(s) \/ s[last + 1] = "?")

IsVideoContent(contentType, u) ==
  \/ TruthyString(contentType) /\ MimeTest(contentType.v, VideoSlash, VideoMimeSubtypes)
  \/ ExtensionTest(u, VideoExtensions)

IsAudioContent(contentType, u) ==
  \/ TruthyString(contentType) /\ MimeTest(contentType.v, AudioSlash, AudioMimeSubtypes)
  \/ ExtensionTest(u, AudioExtensions)

NormalizeContentType(contentType) ==
  IF ~TruthyString(contentType) THEN Null
  ELSE LET normalized == ToLowerCase(Trim(BeforeFirst(contentType.v, ";")))
       IN IF normalized = <<>> THEN Null ELSE Some(normalized)

(***************************************************************************)
(* new URL(url): the scheme, the host name and the query of an absolute    *)
(* URL without credentials and port; Null when the string does not parse.  *)
(***************************************************************************)
SchemeChars ==
  {LowerLetters[i] : i \in 1..26} \cup {UpperLetters[i] : i \in 1..26}
  \cup Digits \cup {"+", "-", "."}

SpecialSchemes ==
  {<<"h", "t", "t", "p">>,
   <<"h", "t", "t", "p", "s">>,
   <<"f", "t", "p">>,
   <<"w", "s">>,
   <<"w", "s", "s">>}

\* the characters that end the authority of a URL
HostEnd == {"/", "?", "#", "\\"}

\* first index >= i whose character is in cls (Len(s)+1 if none)
RECURSIVE FindEnd(_, _, _)
FindEnd(s, i, cls) ==
  IF i > Len(s) \/ s[i] \in cls THEN i ELSE FindEnd(s, i + 1, cls)

ParseUrl(u) ==
  LET colon == IndexOf(u, ":", 1)
      scheme == ToLowerCase(SubSeq(u, 1, colon - 1))
      special == scheme \in SpecialSchemes
      \* a special scheme skips any run of slashes; another scheme has an
      \* authority only after "//"
      afterScheme == colon + 1
      hostStart ==
        IF special THEN RunEnd(u, afterScheme, {"/", "\\"})
        ELSE IF CharAt(u, afterScheme) = "/" /\ CharAt(u, afterScheme + 1) = "/"
             THEN afterScheme + 2
        ELSE 0
      hostEnd == IF hostStart = 0 THEN 0 ELSE FindEnd(u, hostStart, HostEnd)
      hostname == IF hostStart = 0 THEN <<>>
                  ELSE ToLowerCase(SubSeq(u, hostStart, hostEnd - 1))
      question == IndexOf(u, "?", 1)
      hash == IndexOf(u, "#", 1)
      beforeHash == IF hash = 0 THEN Len(u) ELSE hash - 1
      query == IF question = 0 \/ question > beforeHash THEN <<>>
               ELSE SubSeq(u, question + 1, beforeHash)
  IN IF \/ colon <= 1
        \/ ToLowerChar(u[1]) \notin {LowerLetters[i] : i \in 1..26}
        \/ \E i \in 1..(colon - 1) : u[i] \notin SchemeChars
        \/ special /\ hostname = <<>>
     THEN Null
     ELSE Some([hostname |-> hostname, query |-> query])

\* the percent-encoded bytes the decoder of URLSearchParams is given here
PercentCodes ==
  {<<"%", "2", "F">>, <<"%", "2", "f">>, <<"%", "3", "B">>, <<"%", "3", "b">>,
   <<"%", "3", "D">>, <<"%", "3", "d">>, <<"%", "2", "0">>}

PercentValue(code) ==
  CASE ToLowerCase(code) = <<"%", "2", "f">> -> "/"
    [] ToLowerCase(code) = <<"%", "3", "b">> -> ";"
    [] ToLowerCase(code) = <<"%", "3", "d">> -> "="
    [] ToLowerCase(code) = <<"%", "2", "0">> -> " "

\* application/x-www-form-urlencoded decoding of a name or a value
\* the length of the first token of s: a percent code, or one character
TokenLength(s) ==
  IF s[1] # "+" /\ Len(s) >= 3 /\ SubSeq(s, 1, 3) \in PercentCodes THEN 3 ELSE 1

\* the character the first token of s decodes to
TokenValue(s) ==
  IF s[1] = "+" THEN " "
  ELSE IF TokenLength(s) = 3 THEN PercentValue(SubSeq(s, 1, 3))
  ELSE s[1]

RECURSIVE FormDecode(_)
FormDecode(s) ==
  IF s = <<>> THEN <<>>
  ELSE <<TokenValue(s)>> \o FormDecode(SubSeq(s, TokenLength(s) + 1, Len(s)))

\* urlObj.searchParams: the name/value pairs of the query, in order
SearchParams(query) ==
  LET pieces == SelectSeq(Split(query, "&"), LAMBDA piece : piece # <<>>)
  IN [i \in 1..Len(pieces) |->
        [name |-> FormDecode(BeforeFirst(pieces[i], "=")),
         value |-> FormDecode(AfterFirst(pieces[i], "="))]]

\* params.get(name): the value of the first pair with that name, or null
ParamsGet(params, name) ==
  LET hits == {i \in 1..Len(params) : params[i].name = name}
  IN IF hits = {} THEN Null
     ELSE Some(params[CHOOSE i \in hits : \A j \in hits : i <= j].value)

(***************************************************************************)
(* platform-quirks.ts                                                      *)
(***************************************************************************)
\* MIME_TYPE_MAPPINGS, as <<key, MIME type>> pairs
MimeTypeMappings ==
  {<<<<"a", "u", "d", "i", "o", "_", "m", "p", "e", "g">>,
     <<"a", "u", "d", "i", "o", "/", "m", "p", "e", "g">>>>,
   <<<<"a", "u", "d", "i", "o", "_", "m", "p", "3">>,
     <<"a", "u", "d", "i", "o", "/", "m", "p", "e", "g">>>>,
   <<<<"v", "i", "d", "e", "o", "_", "m", "p", "4">>,
     <<"v", "i", "d", "e", "o", "/", "m", "p", "4">>>>,
   <<<<"v", "i", "d", "e", "o", "_", "w", "e", "b", "m">>,
     <<"v", "i", "d", "e", "o", "/", "w", "e", "b", "m">>>>,
   <<<<"a", "u", "d", "i", "o", "_", "a", "a", "c">>,
     <<"a", "u", "d", "i", "o", "/", "a", "a", "c">>>>,
   <<<<"a", "u", "d", "i", "o", "_", "w", "a", "v">>,
     <<"a", "u", "d", "i", "o", "/", "w", "a", "v">>>>,
   <<<<"a", "u", "d", "i", "o", "_", "f", "l", "a", "c">>,
     <<"a", "u", "d", "i", "o", "/", "f", "l", "a", "c">>>>,
   <<<<"a", "u", "d", "i", "o", "_", "o", "g", "g">>,
     <<"a", "u", "d", "i", "o", "/", "o", "g", "g">>>>,
   <<<<"v", "i", "d", "e", "o", "_", "o", "g", "g">>,
     <<"v", "i", "d", "e", "o", "/", "o", "g", "g">>>>}

\* paramNames, in the order they are checked
ParamNames ==
  <<<<"m", "i", "m", "e", "_", "t", "y", "p", "e">>,
    <<"m", "i", "m", "e", "t", "y", "p", "e">>,
    <<"m", "i", "m", "e">>,
    <<"t", "y", "p", "e">>,
    <<"c", "o", "n", "t", "e", "n", "t", "_", "t", "y", "p", "e">>,
    <<"c", "o", "n", "t", "e", "n", "t", "t", "y", "p", "e">>>>

TikTokCdnToken == <<"t", "i", "k", "t", "o", "k", "c", "d", "n">>
GoogleCdnToken ==
  <<"g", "o", "o", "g", "l", "e", "v", "i", "d", "e", "o", ".", "c", "o",
    "m">>

\* MIME_TYPE_MAPPINGS[key], or null
MappedMimeType(key) ==
  IF \E m \in MimeTypeMappings : m[1] = key
  THEN Some((CHOOSE m \in MimeTypeMappings : m[1] = key)[2])
  ELSE Null

\* the loop over paramNames, from the k-th name on
RECURSIVE MimeTypeFromParams(_, _)
MimeTypeFromParams(params, k) ==
  IF k > Len(ParamNames) THEN Null
  ELSE LET value == ParamsGet(params, ParamNames[k]) IN
       IF ~TruthyString(value) THEN MimeTypeFromParams(params, k + 1)
       ELSE IF MappedMimeType(ToLowerCase(value.v)).some
            THEN MappedMimeType(ToLowerCase(value.v))
       ELSE IF Includes(value.v, <<"/">>) THEN Some(ToLowerCase(value.v))
       ELSE MimeTypeFromParams(params, k + 1)

ExtractMimeTypeFromQuery(u) ==
  IF ~ParseUrl(u).some THEN Null
  ELSE MimeTypeFromParams(SearchParams(ParseUrl(u).v.query), 1)

IsTikTokCDN(u) ==
  ParseUrl(u).some /\ Includes(ParseUrl(u).v.hostname, TikTokCdnToken)

IsGoogleCDN(u) ==
  ParseUrl(u).some /\ Includes(ParseUrl(u).v.hostname, GoogleCdnToken)

\* applyPlatformQuirks without the TikTok branch
ApplyPlatformQuirksGoogleOnly(u, serverContentType) ==
  LET queryMimeType == ExtractMimeTypeFromQuery(u) IN
  IF IsGoogleCDN(u) /\ TruthyString(queryMimeType) THEN queryMimeType
  ELSE serverContentType

\* applyPlatformQuirks with the conflict test of the TikTok branch in the
\* Google branch too
ApplyPlatformQuirksConflictOnly(u, serverContentType) ==
  LET queryMimeType == ExtractMimeTypeFromQuery(u) IN
  IF /\ IsTikTokCDN(u) \/ IsGoogleCDN(u)
     /\ TruthyString(queryMimeType)
     /\ TruthyString(serverContentType)
     /\ BeforeFirst(serverContentType.v, "/") # BeforeFirst(queryMimeType.v, "/")
  THEN queryMimeType
  ELSE serverContentType

\* applyPlatformQuirks using the query type of a TikTok URL also when the
\* server gives no content type
ApplyPlatformQuirksFillsMissing(u, serverContentType) ==
  LET queryMimeType == ExtractMimeTypeFromQuery(u) IN
  IF /\ IsTikTokCDN(u)
     /\ TruthyString(queryMimeType)
     /\ \/ ~TruthyString(serverContentType)
        \/ BeforeFirst(serverContentType.v, "/") # BeforeFirst(queryMimeType.v, "/")
  THEN queryMimeType
  ELSE IF IsGoogleCDN(u) /\ TruthyString(queryMimeType) THEN queryMimeType
  ELSE serverContentType

\* applyPlatformQuirks with the Google branch as an else of the TikTok test
ApplyPlatformQuirksElseIf(u, serverContentType) ==
  LET queryMimeType == ExtractMimeTypeFromQuery(u) IN
  IF IsTikTokCDN(u)
  THEN IF /\ TruthyString(queryMimeType)
          /\ TruthyString(serverContentType)
          /\ BeforeFirst(serverContentType.v, "/") # BeforeFirst(queryMimeType.v, "/")
       THEN queryMimeType
       ELSE serverContentType
  ELSE IF IsGoogleCDN(u) /\ TruthyString(queryMimeType) THEN queryMimeType
  ELSE serverContentType

ApplyPlatformQuirks(u, serverContentType) ==
  LET queryMimeType == ExtractMimeTypeFromQuery(u) IN
  IF /\ IsTikTokCDN(u)
     /\ TruthyString(queryMimeType)
     /\ TruthyString(serverContentType)
     /\ BeforeFirst(serverContentType.v, "/") # BeforeFirst(queryMimeType.v, "/")
  THEN queryMimeType
  ELSE IF IsGoogleCDN(u) /\ TruthyString(queryMimeType) THEN queryMimeType
  ELSE serverContentType


\* the pieces of the template literals of getQuirkReason
NullWord == <<"n", "u", "l", "l">>
TikTokReturned ==
  <<"T", "i", "k", "T", "o", "k", " ", "C", "D", "N", " ", "q", "u", "i",
    "r", "k", ":", " ", "S", "e", "r", "v", "e", "r", " ", "r", "e", "t",
    "u", "r", "n", "e", "d", " ", "'">>
TikTokSpecified ==
  <<"'", " ", "b", "u", "t", " ", "q", "u", "e", "r", "y", " ", "p", "a",
    "r", "a", "m", "e", "t", "e", "r", " ", "s", "p", "e", "c", "i", "f",
    "i", "e", "d", " ", "'">>
GoogleUsing ==
  <<"G", "o", "o", "g", "l", "e", " ", "C", "D", "N", " ", "q", "u", "i",
    "r", "k", ":", " ", "U", "s", "i", "n", "g", " ", "M", "I", "M", "E",
    " ", "t", "y", "p", "e", " ", "f", "r", "o", "m", " ", "q", "u", "e",
    "r", "y", " ", "p", "a", "r", "a", "m", "e", "t", "e", "r", " ", "'">>
GoogleInstead ==
  <<"'", " ", "i", "n", "s", "t", "e", "a", "d", " ", "o", "f", " ", "s",
    "e", "r", "v", "e", "r", "'", "s", " ", "'">>
Quote == <<"'">>

\* ${value} in a template literal: the string, or the word null
Interpolate(value) == IF value.some THEN value.v ELSE NullWord

\* getQuirkReason without the test originalType === correctedType
GetQuirkReasonNoEqualTest(u, originalType, correctedType) ==
  IF ~TruthyString(correctedType) THEN Null
  ELSE IF IsTikTokCDN(u)
  THEN Some(TikTokReturned \o Interpolate(originalType) \o TikTokSpecified
            \o correctedType.v \o Quote)
  ELSE IF IsGoogleCDN(u)
  THEN Some(GoogleUsing \o correctedType.v \o Quote
            \o (IF TruthyString(originalType)
                THEN GoogleInstead \o originalType.v \o Quote
                ELSE <<>>))
  ELSE Null

GetQuirkReason(u, originalType, correctedType) ==
  IF originalType = correctedType \/ ~TruthyString(correctedType) THEN Null
  ELSE IF IsTikTokCDN(u)
  THEN Some(TikTokReturned \o Interpolate(originalType) \o TikTokSpecified
            \o correctedType.v \o Quote)
  ELSE IF IsGoogleCDN(u)
  THEN Some(GoogleUsing \o correctedType.v \o Quote
            \o (IF TruthyString(originalType)
                THEN GoogleInstead \o originalType.v \o Quote
                ELSE <<>>))
  ELSE Null

(***************************************************************************)
(* Inputs: the URL, the transport (options.fetch) and its answers.         *)
(***************************************************************************)
Chars1000 == <<"1", "0", "0", "0">>
CRValid == <<"b", "y", "t", "e", "s", " ", "0", "-", "0", "/", "1", "0", "0", "0">>
CRNoTotal == <<"b", "y", "t", "e", "s", " ", "0", "-", "0">>

UrlVideoMp4 ==
  <<"h", "t", "t", "p", "s", ":", "/", "/", "e", "x", "a", "m", "p", "l",
    "e", ".", "c", "o", "m", "/", "v", "i", "d", "e", "o", ".", "m", "p",
    "4">>
UrlNotAUrl == <<"n", "o", "t", "-", "a", "-", "u", "r", "l">>
UrlEmpty == <<>>

Urls == {UrlVideoMp4, UrlNotAUrl, UrlEmpty}

\* new URL(url) succeeds
UrlParses(u) == ParseUrl(u).some

SuccessStatuses == {200, 206}
ErrorStatuses == {301, 400, 401, 403, 404, 405, 416, 500, 503}

\* what a transport call settles to: a Response, or a rejection
Responses ==
  [kind : {"response"}, status : SuccessStatuses,
   contentRange : {Null, Some(CRValid), Some(CRNoTotal)},
   contentLength : {Null, Some(Chars1000)},
   acceptRanges : {Null, Some("bytes")},
   contentType : {Null}]
  \cup
  [kind : {"response"}, status : ErrorStatuses,
   contentRange : {Null}, contentLength : {Null}, acceptRanges : {Null},
   contentType : {Null}]

Rejections == [kind : {"reject"}, name : {"AbortError", "TypeError"}]

Settlements == Responses \cup Rejections

\* Response.ok
ResponseOk(response) == response.status >= 200 /\ response.status <= 299

\* The transports: one that may answer anything, one that gives the same
\* answer to every call, and one whose first n calls are rejected with a
\* generic error and whose later calls are answered with a success.  Two
\* more kinds are used below: "pool" answers every call with any settlement
\* of a given set, "script" answers its first n calls with one settlement
\* and every later call with another.
Transports ==
  {[mode |-> "any"]}
  \cup [mode : {"always"}, answer : Settlements]
  \cup [mode : {"failN"}, n : 0..MaxFail]

\* the possible settlements of the i-th call made to transport t
Answers(t, i) ==
  CASE t.mode = "any" -> Settlements
    [] t.mode = "always" -> {t.answer}
    [] t.mode = "failN" ->
         IF i <= t.n THEN {[kind |-> "reject", name |-> "TypeError"]}
         ELSE {r \in Responses : ResponseOk(r)}
    [] t.mode = "pool" -> t.pool
    [] t.mode = "script" -> {IF i <= t.n THEN t.first ELSE t.rest}

(***************************************************************************)
(* State of one probeMedia call.                                           *)
(***************************************************************************)
VARIABLES
  url,         \* the url argument
  maxRetries,  \* mergedOptions.maxRetries
  transport,   \* mergedOptions.fetch
  pc,          \* "start", the request in flight ("range", "head", "get"),
               \* "backoff" (the retry timer is pending), or "done"
  attempt,     \* the attempt counter
  lastError,   \* lastError (Null or Some(error))
  calls,       \* the requests handed to the transport so far
  cycle,       \* what the calls of the current attempt cycle settled to
  waits,       \* the backoff delays waited so far
  outcome,     \* the result returned or the error thrown, once done
  options,     \* the options argument (headers, followRedirects,
               \* allowPlatformQuirks), Null where the caller gives none
  earlier,     \* Null, or the requests and the outcome of an earlier,
               \* finished call with the same arguments
  peer,        \* Null, or the arguments and locals of another call that
               \* runs concurrently and is not the one taking steps
  reason,      \* Null, or the arguments and the value of a getQuirkReason
               \* call
  fired        \* the requests (by their place in calls) whose timeout
               \* timer has fired

vars ==
  <<url, maxRetries, transport, pc, attempt, lastError, calls, cycle, waits,
    outcome, options, earlier, peer, reason, fired>>

NoOutcome == [t |-> "none"]

(***************************************************************************)
(* Options.  A header object is a set of <<name, value>> pairs with        *)
(* distinct names.                                                         *)
(***************************************************************************)
\* DEFAULT_OPTIONS (headers, followRedirects, allowPlatformQuirks)
DefaultOptions ==
  [headers |-> {}, followRedirects |-> TRUE, allowPlatformQuirks |-> FALSE]

\* the options argument of a caller that gives no option
NoOptions ==
  [headers |-> Null, followRedirects |-> Null, allowPlatformQuirks |-> Null]

\* {...a, ...b}
MergeHeaders(a, b) == {p \in a : \A q \in b : q[1] # p[1]} \cup b

\* mergedOptions
MergedOptions ==
  [headers |->
     MergeHeaders(DefaultOptions.headers,
                  IF options.headers.some THEN options.headers.v ELSE {}),
   followRedirects |->
     IF options.followRedirects.some THEN options.followRedirects.v
     ELSE DefaultOptions.followRedirects,
   allowPlatformQuirks |->
     IF options.allowPlatformQuirks.some THEN options.allowPlatformQuirks.v
     ELSE DefaultOptions.allowPlatformQuirks]

(***************************************************************************)
(* probe.ts                                                                *)
(***************************************************************************)
\* ValidateUrl without the throw: every string is accepted
ValidateUrlAcceptsAll(u) == Null

ValidateUrl(u) == IF UrlParses(u) THEN Null ELSE Some(InvalidUrlError)

\* CreateHttpError without the 404 branch: 404 falls to the generic 4xx kind
CreateHttpErrorNo404(status) ==
  IF status = 403 THEN ForbiddenError
  ELSE IF status = 401 THEN UnauthorizedError
  ELSE IF status >= 400 /\ status < 500 THEN ClientError(status)
  ELSE IF status >= 500 THEN ServerError(status)
  ELSE NetworkError(Some(status))

\* CreateHttpError with the 401 and 403 branches exchanged
CreateHttpErrorSwapped(status) ==
  IF status = 404 THEN NotFoundError
  ELSE IF status = 401 THEN ForbiddenError
  ELSE IF status = 403 THEN UnauthorizedError
  ELSE IF status >= 400 /\ status < 500 THEN ClientError(status)
  ELSE IF status >= 500 THEN ServerError(status)
  ELSE NetworkError(Some(status))

CreateHttpError(status) ==
  IF status = 404 THEN NotFoundError
  ELSE IF status = 403 THEN ForbiddenError
  ELSE IF status = 401 THEN UnauthorizedError
  ELSE IF status >= 400 /\ status < 500 THEN ClientError(status)
  ELSE IF status >= 500 THEN ServerError(status)
  ELSE NetworkError(Some(status))

\* a statusCode that is undefined (or 0) is falsy
Truthy(statusCode) == statusCode.some /\ statusCode.v # 0

\* IsRetriableError without the ServerError disjunct
IsRetriableErrorNoServer(error) ==
  \/ InstanceOf(error, "TimeoutError")
  \/ /\ InstanceOf(error, "NetworkError")
     /\ ~InstanceOf(error, "ClientError")
     /\ ~Truthy(error.statusCode)

IsRetriableError(error) ==
  \/ InstanceOf(error, "ServerError")
  \/ InstanceOf(error, "TimeoutError")
  \/ /\ InstanceOf(error, "NetworkError")
     /\ ~InstanceOf(error, "ClientError")
     /\ ~Truthy(error.statusCode)

\* fetchWithTimeout without its catch block: the transport's own error
\* goes through as it is
FetchWithTimeoutRaw(settled) ==
  IF settled.kind = "response" THEN [t |-> "response", response |-> settled]
  ELSE [t |-> "throw",
        error |-> [cls |-> settled.name, code |-> Null, statusCode |-> Null]]

\* fetchWithTimeout without the test of the error's name: every rejection
\* becomes a NetworkError
FetchWithTimeoutNoAbortTest(settled) ==
  IF settled.kind = "response" THEN [t |-> "response", response |-> settled]
  ELSE [t |-> "throw", error |-> NetworkError(Null)]

\* the awaited fetch: the response, or the error thrown in its place
FetchWithTimeout(settled) ==
  IF settled.kind = "response" THEN [t |-> "response", response |-> settled]
  ELSE IF settled.name = "AbortError" THEN [t |-> "throw", error |-> TimeoutError]
  ELSE [t |-> "throw", error |-> NetworkError(Null)]

\* Each probe step yields a result, null (decline), or a thrown error.
ReturnNull == [t |-> "null"]
Return(result) == [t |-> "result", result |-> result]
Throw(error) == [t |-> "throw", error |-> error]

\* the content type of a response: normalized, then corrected when
\* options.allowPlatformQuirks is set
ContentTypeOf(response) ==
  LET contentType == NormalizeContentType(response.contentType) IN
  IF MergedOptions.allowPlatformQuirks THEN ApplyPlatformQuirks(url, contentType)
  ELSE contentType

\* the ProbeResult object a probe step returns
ProbeResult(contentType, size, supportsRangeRequests, method) ==
  [contentType |-> contentType,
   size |-> size,
   supportsRangeRequests |-> supportsRangeRequests,
   isVideo |-> IsVideoContent(contentType, url),
   isAudio |-> IsAudioContent(contentType, url),
   method |-> method]

\* ProbeWithRange expecting 200 instead of 206
ProbeWithRangeExpects200(settled) ==
  LET f == FetchWithTimeout(settled) IN
  IF f.t = "throw" THEN ReturnNull
  ELSE LET response == f.response
           size == ExtractSizeFromContentRange(response.contentRange)
       IN IF /\ ~ResponseOk(response)
             /\ response.status # 206
             /\ response.status # 416
             /\ response.status >= 400
          THEN ReturnNull
          ELSE IF response.status # 200 THEN ReturnNull
          ELSE IF ~size.some THEN ReturnNull
          ELSE Return(ProbeResult(ContentTypeOf(response),
                          size,
                          TRUE,
                          "range"))

\* ProbeWithRange raising the HTTP error of a status >= 400 instead of
\* declining
ProbeWithRangeRaises(settled) ==
  LET f == FetchWithTimeout(settled) IN
  IF f.t = "throw" THEN ReturnNull
  ELSE LET response == f.response
           size == ExtractSizeFromContentRange(response.contentRange)
       IN IF /\ ~ResponseOk(response)
             /\ response.status # 206
             /\ response.status # 416
             /\ response.status >= 400
          THEN Throw(CreateHttpError(response.status))
          ELSE IF response.status # 206 THEN ReturnNull
          ELSE IF ~size.some THEN ReturnNull
          ELSE Return(ProbeResult(ContentTypeOf(response),
                          size,
                          TRUE,
                          "range"))

\* probeWithRange without the test size === null
ProbeWithRangeNoSizeTest(settled) ==
  LET f == FetchWithTimeout(settled) IN
  IF f.t = "throw" THEN ReturnNull
  ELSE LET response == f.response
           size == ExtractSizeFromContentRange(response.contentRange)
       IN IF response.status # 206 THEN ReturnNull
          ELSE Return(ProbeResult(ContentTypeOf(response),
                          size,
                          TRUE,
                          "range"))

\* a range probe that yields no result whatever the answer
ProbeWithRangeAlwaysDeclines(settled) == ReturnNull

ProbeWithRange(settled) ==
  LET f == FetchWithTimeout(settled) IN
  IF f.t = "throw" THEN ReturnNull
  ELSE LET response == f.response
           size == ExtractSizeFromContentRange(response.contentRange)
       IN IF /\ ~ResponseOk(response)
             /\ response.status # 206
             /\ response.status # 416
             /\ response.status >= 400
          THEN ReturnNull
          ELSE IF response.status # 206 THEN ReturnNull
          ELSE IF ~size.some THEN ReturnNull
          ELSE Return(ProbeResult(ContentTypeOf(response),
                          size,
                          TRUE,
                          "range"))

\* ProbeWithHead computing supportsRangeRequests as probeWithGet does
ProbeWithHeadSupportsLikeGet(settled) ==
  LET f == FetchWithTimeout(settled) IN
  IF f.t = "throw" THEN ReturnNull
  ELSE LET response == f.response IN
       IF response.status = 405 THEN ReturnNull
       ELSE IF ~ResponseOk(response) THEN ReturnNull
       ELSE Return(ProbeResult(ContentTypeOf(response),
                          ExtractSizeFromContentLength(response.contentLength),
                          response.acceptRanges = Some("bytes") \/ response.status = 206,
                          "head"))

\* ProbeWithHead without the check of response.ok
ProbeWithHeadNoOkCheck(settled) ==
  LET f == FetchWithTimeout(settled) IN
  IF f.t = "throw" THEN ReturnNull
  ELSE LET response == f.response IN
       IF response.status = 405 THEN ReturnNull
       ELSE Return(ProbeResult(ContentTypeOf(response),
                          ExtractSizeFromContentLength(response.contentLength),
                          response.acceptRanges = Some("bytes"),
                          "head"))

\* ProbeWithHead letting the error of a failed fetch propagate
ProbeWithHeadRethrows(settled) ==
  LET f == FetchWithTimeout(settled) IN
  IF f.t = "throw" THEN Throw(f.error)
  ELSE LET response == f.response IN
       IF response.status = 405 THEN ReturnNull
       ELSE IF ~ResponseOk(response) THEN ReturnNull
       ELSE Return(ProbeResult(ContentTypeOf(response),
                          ExtractSizeFromContentLength(response.contentLength),
                          response.acceptRanges = Some("bytes"),
                          "head"))

\* ProbeWithHead reporting the content-length of the declined range answer
\* when its own response carries none
ProbeWithHeadKeepsRangeLength(settled) ==
  LET f == FetchWithTimeout(settled) IN
  IF f.t = "throw" THEN ReturnNull
  ELSE LET response == f.response
           own == ExtractSizeFromContentLength(response.contentLength)
       IN IF response.status = 405 THEN ReturnNull
          ELSE IF ~ResponseOk(response) THEN ReturnNull
          ELSE Return(ProbeResult(ContentTypeOf(response),
                          IF own.some \/ cycle[1].kind # "response" THEN own
                          ELSE ExtractSizeFromContentLength(cycle[1].contentLength),
                          response.acceptRanges = Some("bytes"),
                          "head"))

ProbeWithHead(settled) ==
  LET f == FetchWithTimeout(settled) IN
  IF f.t = "throw" THEN ReturnNull
  ELSE LET response == f.response IN
       IF response.status = 405 THEN ReturnNull
       ELSE IF ~ResponseOk(response) THEN ReturnNull
       ELSE Return(ProbeResult(ContentTypeOf(response),
                          ExtractSizeFromContentLength(response.contentLength),
                          response.acceptRanges = Some("bytes"),
                          "head"))

\* ProbeWithGet leaving size out of the result when no header yields one
ProbeWithGetPartial(settled) ==
  LET f == FetchWithTimeout(settled) IN
  IF f.t = "throw" THEN Throw(f.error)
  ELSE LET response == f.response
           fromRange == ExtractSizeFromContentRange(response.contentRange)
           fromLength == ExtractSizeFromContentLength(response.contentLength)
           contentType == ContentTypeOf(response)
       IN IF ~ResponseOk(response) /\ response.status # 206
          THEN Throw(CreateHttpError(response.status))
          ELSE IF fromRange.some \/ fromLength.some
          THEN Return(ProbeResult(contentType,
                                  IF fromRange.some THEN fromRange ELSE fromLength,
                                  response.acceptRanges = Some("bytes") \/ response.status = 206,
                                  "get"))
          ELSE Return([contentType |-> contentType,
                       supportsRangeRequests |->
                         response.acceptRanges = Some("bytes") \/ response.status = 206,
                       method |-> "get"])

\* ProbeWithGet preferring content-length to the total of content-range
ProbeWithGetLengthFirst(settled) ==
  LET f == FetchWithTimeout(settled) IN
  IF f.t = "throw" THEN Throw(f.error)
  ELSE LET response == f.response
           fromLength == ExtractSizeFromContentLength(response.contentLength)
       IN IF ~ResponseOk(response) /\ response.status # 206
          THEN Throw(CreateHttpError(response.status))
          ELSE Return(ProbeResult(ContentTypeOf(response),
                          IF fromLength.some THEN fromLength ELSE ExtractSizeFromContentRange(response.contentRange),
                          response.acceptRanges = Some("bytes") \/ response.status = 206,
                          "get"))

ProbeWithGet(settled) ==
  LET f == FetchWithTimeout(settled) IN
  IF f.t = "throw" THEN Throw(f.error)
  ELSE LET response == f.response
           fromRange == ExtractSizeFromContentRange(response.contentRange)
       IN IF ~ResponseOk(response) /\ response.status # 206
          THEN Throw(CreateHttpError(response.status))
          ELSE Return(ProbeResult(ContentTypeOf(response),
                          IF fromRange.some THEN fromRange ELSE ExtractSizeFromContentLength(response.contentLength),
                          response.acceptRanges = Some("bytes") \/ response.status = 206,
                          "get"))

\* the catch block without the ClientError and isRetriableError tests:
\* everything but an invalid URL is retried
CatchDecisionRetriesAll(error, att, retries) ==
  IF InstanceOf(error, "InvalidUrlError") THEN "throw"
  ELSE IF att >= retries THEN "break"
  ELSE "wait"

\* the catch block of the retry loop: rethrow, leave the loop, or wait
CatchDecision(error, att, retries) ==
  IF InstanceOf(error, "InvalidUrlError") THEN "throw"
  ELSE IF InstanceOf(error, "ClientError") THEN "throw"
  ELSE IF ~IsRetriableError(error) THEN "throw"
  ELSE IF att >= retries THEN "break"
  ELSE "wait"

Min(a, b) == IF a <= b THEN a ELSE b

\* the delay without its cap
BackoffDelayUncapped(att) == 1000 * att

BackoffDelay(att) == Min(1000 * att, 5000)

\* the redirect policy without the option: always 'follow'
RedirectPolicyAlwaysFollow == "follow"

\* redirect: options.followRedirects ? 'follow' : 'manual'
RedirectPolicy == IF MergedOptions.followRedirects THEN "follow" ELSE "manual"

\* the header the engine adds to the range and to the GET request
RangeHeader == {<<"Range", "bytes=0-0">>}

\* the request objects handed to the transport (step names the probe step
\* that issues the request)
RangeRequest ==
  [step |-> "range", method |-> "GET",
   headers |-> MergeHeaders(MergedOptions.headers, RangeHeader),
   redirect |-> RedirectPolicy]
\* the HEAD request with the Range header of the other two requests
HeadRequestWithRange ==
  [step |-> "head", method |-> "HEAD",
   headers |-> MergeHeaders(MergedOptions.headers, RangeHeader),
   redirect |-> RedirectPolicy]

HeadRequest ==
  [step |-> "head", method |-> "HEAD",
   headers |-> MergedOptions.headers,
   redirect |-> RedirectPolicy]
GetRequest ==
  [step |-> "get", method |-> "GET",
   headers |-> MergeHeaders(MergedOptions.headers, RangeHeader),
   redirect |-> RedirectPolicy]

\* the attempt counter of a call that starts, were the counter kept from
\* one call to the next instead of being a local of the call
AttemptAtEntryKept == attempt

\* let attempt = 0
AttemptAtEntry == 0

Init ==
  /\ url \in Urls
  /\ maxRetries \in (0 - 1)..MaxRetriesBound
  /\ transport \in Transports
  /\ pc = "start"
  /\ attempt = 0
  /\ lastError = Null
  /\ calls = <<>>
  /\ cycle = <<>>
  /\ waits = <<>>
  /\ outcome = NoOutcome
  /\ options = NoOptions
  /\ earlier = Null
  /\ peer = Null
  /\ reason = Null
  /\ fired = {}

\* the catch block keeping the first error it saw
RecordErrorKeepsFirst(error) == IF lastError.some THEN lastError ELSE Some(error)

\* lastError = error
RecordError(error) == Some(error)

\* the statements after the loop, always throwing the fallback error
LoopExitAlwaysExceeded(recorded) == Throw(MaxRetriesExceededError)

\* the statements after the loop, with lastError as recorded: throw it, or
\* throw MaxRetriesExceededError when none was recorded
LoopExit(recorded) ==
  IF recorded.some THEN Throw(recorded.v) ELSE Throw(MaxRetriesExceededError)

\* the head of the while loop, entered with attempt counter att: start the
\* next cycle with the range request, or leave the loop and throw
\* the loop without its condition attempt < maxRetries
LoopHeadNoBound(att) ==
  /\ attempt' = att + 1
  /\ calls' = Append(calls, RangeRequest)
  /\ cycle' = <<>>
  /\ pc' = "range"
  /\ outcome' = outcome

LoopHead(att) ==
  IF att < maxRetries
  THEN /\ attempt' = att + 1
       /\ calls' = Append(calls, RangeRequest)
       /\ cycle' = <<>>
       /\ pc' = "range"
       /\ outcome' = outcome
  ELSE /\ attempt' = att
       /\ calls' = calls
       /\ cycle' = cycle
       /\ pc' = "done"
       /\ outcome' = LoopExit(lastError)

\* probeMedia is called: validateUrl, merge options, enter the loop
Start ==
  /\ pc = "start"
  /\ IF ValidateUrl(url).some
     THEN /\ pc' = "done"
          /\ outcome' = Throw(ValidateUrl(url).v)
          /\ UNCHANGED <<attempt, calls, cycle>>
     ELSE LoopHead(attempt)
  /\ UNCHANGED <<url, maxRetries, transport, lastError, waits, options, earlier, peer, reason, fired>>

\* the position of a call whose request is in flight with its signal fired
Aborted(step) ==
  CASE step = "range" -> "range-aborted"
    [] step = "head" -> "head-aborted"
    [] step = "get" -> "get-aborted"

\* what the transport does with a request whose signal has fired
AbortRejection == [kind |-> "reject", name |-> "AbortError"]

\* the ways the awaited request of a step can settle: as the transport answers
\* it, or, once its signal has fired, with the rejection of the aborted request
Settled(step) ==
  IF pc = Aborted(step) THEN {AbortRejection}
  ELSE Answers(transport, Len(calls))

\* what follows when the awaited range request has settled
RangeStep(settled) ==
  /\ \E r \in {ProbeWithRange(settled)} :
       /\ cycle' = Append(cycle, settled)
       /\ CASE r.t = "result" ->
                 /\ pc' = "done"
                 /\ outcome' = r
                 /\ UNCHANGED <<calls, lastError>>
            [] r.t = "null" ->
                 /\ pc' = "head"
                 /\ calls' = Append(calls, HeadRequest)
                 /\ UNCHANGED <<outcome, lastError>>
            [] r.t = "throw" ->
                 LET d == CatchDecision(r.error, attempt, maxRetries) IN
                 /\ lastError' = RecordError(r.error)
                 /\ calls' = calls
                 /\ IF d = "wait" THEN pc' = "backoff" /\ outcome' = outcome
                    ELSE /\ pc' = "done"
                         /\ outcome' = IF d = "break"
                                       THEN LoopExit(RecordError(r.error))
                                       ELSE r
  /\ UNCHANGED <<url, maxRetries, transport, attempt, waits, options, earlier, peer, reason, fired>>

\* the range request settles
RangeSettles ==
  /\ pc \in {"range", Aborted("range")}
  /\ \E settled \in Settled("range") : RangeStep(settled)

\* what follows when the awaited HEAD request has settled
HeadStep(settled) ==
  /\ \E r \in {ProbeWithHead(settled)} :
       /\ cycle' = Append(cycle, settled)
       /\ CASE r.t = "result" ->
                 /\ pc' = "done"
                 /\ outcome' = r
                 /\ UNCHANGED <<calls, lastError>>
            [] r.t = "null" ->
                 /\ pc' = "get"
                 /\ calls' = Append(calls, GetRequest)
                 /\ UNCHANGED <<outcome, lastError>>
            [] r.t = "throw" ->
                 LET d == CatchDecision(r.error, attempt, maxRetries) IN
                 /\ lastError' = RecordError(r.error)
                 /\ calls' = calls
                 /\ IF d = "wait" THEN pc' = "backoff" /\ outcome' = outcome
                    ELSE /\ pc' = "done"
                         /\ outcome' = IF d = "break"
                                       THEN LoopExit(RecordError(r.error))
                                       ELSE r
  /\ UNCHANGED <<url, maxRetries, transport, attempt, waits, options, earlier, peer, reason, fired>>

\* the HEAD request settles
HeadSettles ==
  /\ pc \in {"head", Aborted("head")}
  /\ \E settled \in Settled("head") : HeadStep(settled)

\* what follows when the awaited GET request has settled
GetStep(settled) ==
  /\ \E r \in {ProbeWithGet(settled)} :
       /\ cycle' = Append(cycle, settled)
       /\ calls' = calls
       /\ IF r.t = "result"
          THEN /\ pc' = "done"
               /\ outcome' = r
               /\ lastError' = lastError
          ELSE LET d == CatchDecision(r.error, attempt, maxRetries) IN
               /\ lastError' = RecordError(r.error)
               /\ IF d = "wait" THEN pc' = "backoff" /\ outcome' = outcome
                  ELSE /\ pc' = "done"
                       /\ outcome' = IF d = "break"
                                     THEN LoopExit(RecordError(r.error))
                                     ELSE r
  /\ UNCHANGED <<url, maxRetries, transport, attempt, waits, options, earlier, peer, reason, fired>>

\* the GET request settles
GetSettles ==
  /\ pc \in {"get", Aborted("get")}
  /\ \E settled \in Settled("get") : GetStep(settled)

\* the backoff timer fires and the loop goes round
BackoffElapses ==
  /\ pc = "backoff"
  /\ waits' = Append(waits, BackoffDelay(attempt))
  /\ LoopHead(attempt)
  /\ UNCHANGED <<url, maxRetries, transport, lastError, options, earlier, peer, reason, fired>>

Next ==
  \/ Start
  \/ RangeSettles
  \/ HeadSettles
  \/ GetSettles
  \/ BackoffElapses

Spec == Init /\ [][Next]_vars

TypeOK ==
  /\ url \in Urls
  /\ maxRetries \in (0 - 1)..MaxRetriesBound
  /\ transport.mode \in {"any", "always", "failN", "pool", "script"}
  /\ pc \in {"start", "range", "head", "get", "backoff", "done"}
  /\ attempt \in 0..MaxRetriesBound
  /\ Len(cycle) <= 3
  /\ \A i \in 1..Len(cycle) : cycle[i] \in Settlements

(***************************************************************************)
(* Vocabulary of the properties.                                           *)
(***************************************************************************)
Done == pc = "done"
Returned == Done /\ outcome.t = "result"
Raised == Done /\ outcome.t = "throw"

IsResponse(settled) == settled.kind = "response"
IsRejection(settled) == settled.kind = "reject"
HasStatus(settled, statuses) == IsResponse(settled) /\ settled.status \in statuses
Is2xx(settled) == HasStatus(settled, 200..299)
Is4xx(settled) == HasStatus(settled, 400..499)
Is5xx(settled) == HasStatus(settled, 500..599)

\* a 206 answer whose content-range yields a total size
Partial206WithSize(settled) ==
  /\ HasStatus(settled, {206})
  /\ ExtractSizeFromContentRange(settled.contentRange).some

\* the calls of the current attempt cycle are the last Len(cycle) calls, plus
\* the one in flight
CallsOfEarlierCycles == IF attempt = 0 THEN 0 ELSE 3 * (attempt - 1)

AlwaysTransport(statuses) ==
  /\ transport.mode = "always"
  /\ HasStatus(transport.answer, statuses)

\* C1: when the range request of a valid URL is answered 206 with a
\* content-range that yields a total size, probe returns method = "range"
\* with supportsRangeRequests = true and that call was the only one of its
\* cycle (the only call at all when it is the first transport call).
C1_RangeSuccess ==
  (Len(cycle) >= 1 /\ Partial206WithSize(cycle[1])) =>
     /\ Returned
     /\ outcome.result.method = "range"
     /\ outcome.result.supportsRangeRequests = TRUE
     /\ Len(cycle) = 1
     /\ Len(calls) = CallsOfEarlierCycles + 1
     /\ (attempt = 1 => calls = <<RangeRequest>>)

C1_Witness ==
  /\ Done
  /\ attempt = 1
  /\ transport.mode = "any"
  /\ Len(cycle) = 1
  /\ Partial206WithSize(cycle[1])
  /\ calls = <<RangeRequest>>

\* C2: when the range request is answered with a status other than 206 and
\* the HEAD request with a 2xx, probe returns method = "head" after exactly
\* two calls, and supportsRangeRequests is true iff the HEAD response has
\* accept-ranges: bytes, whatever the range response carried.
C2_HeadSuccess ==
  (/\ Len(cycle) >= 2
   /\ IsResponse(cycle[1]) /\ cycle[1].status # 206
   /\ Is2xx(cycle[2])) =>
     /\ Returned
     /\ outcome.result.method = "head"
     /\ outcome.result.supportsRangeRequests = (cycle[2].acceptRanges = Some("bytes"))
     /\ Len(cycle) = 2
     /\ Len(calls) = CallsOfEarlierCycles + 2
     /\ (attempt = 1 => calls = <<RangeRequest, HeadRequest>>)

C2_Witness ==
  /\ Returned
  /\ attempt = 1
  /\ Len(cycle) = 2
  /\ HasStatus(cycle[1], {200})
  /\ cycle[1].acceptRanges = Some("bytes")
  /\ Is2xx(cycle[2])
  /\ cycle[2].acceptRanges = Null
  /\ outcome.result.method = "head"
  /\ outcome.result.supportsRangeRequests = FALSE

RangeDeclines(settled) == IsRejection(settled) \/ ~HasStatus(settled, {206})
HeadDeclines(settled) == IsRejection(settled) \/ ~Is2xx(settled)

\* C3: when the range probe declines (non-206 or failure) and the HEAD probe
\* declines (405, another non-2xx, or failure), the GET request is issued,
\* and when it succeeds probe returns method = "get"; the cycle made exactly
\* the three calls range-GET, HEAD, GET in that order (3 calls in all when it
\* is the first cycle).
C3_GetFallback ==
  (/\ Len(cycle) >= 2
   /\ RangeDeclines(cycle[1])
   /\ HeadDeclines(cycle[2])) =>
     /\ Len(calls) = CallsOfEarlierCycles + 3
     /\ SubSeq(calls, Len(calls) - 2, Len(calls)) = <<RangeRequest, HeadRequest, GetRequest>>
     /\ (Len(cycle) = 2 => pc = "get")
     /\ (Len(cycle) = 3 /\ Is2xx(cycle[3]) =>
           /\ Returned
           /\ outcome.result.method = "get"
           /\ (attempt = 1 => calls = <<RangeRequest, HeadRequest, GetRequest>>))

C3_Witness ==
  /\ Returned
  /\ attempt = 1
  /\ Len(cycle) = 3
  /\ IsRejection(cycle[1])
  /\ HasStatus(cycle[2], {405})
  /\ Is2xx(cycle[3])
  /\ outcome.result.method = "get"
  /\ Len(calls) = 3

\* C4: with a transport that answers every request with 404 and
\* maxRetries >= 1, probe fails with a NotFound error carrying statusCode 404
\* after exactly one attempt cycle (range, head, get); there is no backoff
\* wait and no second cycle.
C4_NoRetryOn404 ==
  (AlwaysTransport({404}) /\ UrlParses(url) /\ maxRetries >= 1) =>
     /\ pc # "backoff"
     /\ attempt <= 1
     /\ waits = <<>>
     /\ (Done =>
           /\ outcome.t = "throw"
           /\ InstanceOf(outcome.error, "NotFoundError")
           /\ outcome.error.statusCode = Some(404)
           /\ attempt = 1
           /\ calls = <<RangeRequest, HeadRequest, GetRequest>>)

C4_Witness ==
  /\ AlwaysTransport({404})
  /\ maxRetries = MaxRetriesBound
  /\ Raised
  /\ Len(calls) = 3

\* the transport of the retry law: the first n calls are rejected with a
\* generic network error, later calls are answered with a success
FailNTransport == transport.mode = "failN"

\* C5 (as stated): with a transport whose first N calls fail with a generic
\* network error and whose later calls succeed, probe succeeds after N+1
\* attempt cycles if maxRetries > N, and fails with the last network error if
\* maxRetries <= N.
C5_Original ==
  (FailNTransport /\ UrlParses(url) /\ maxRetries >= 1 /\ Done) =>
     IF maxRetries > transport.n
     THEN outcome.t = "result" /\ attempt = transport.n + 1
     ELSE outcome = Throw(NetworkError(Null))

\* C5 (amended): a failure of the range or of the HEAD call is swallowed
\* inside its cycle, so only every third failing call ends a cycle: for
\* maxRetries >= 1, probe succeeds in attempt cycle floor(N/3)+1 if
\* maxRetries > floor(N/3), and fails with the last network error, after
\* maxRetries cycles, if maxRetries <= floor(N/3).
C5_RetryLaw ==
  (FailNTransport /\ UrlParses(url) /\ maxRetries >= 1 /\ Done) =>
     IF maxRetries > transport.n \div 3
     THEN /\ outcome.t = "result"
          /\ attempt = (transport.n \div 3) + 1
          /\ Len(calls) > transport.n
          /\ Len(waits) = transport.n \div 3
     ELSE /\ outcome = Throw(NetworkError(Null))
          /\ attempt = maxRetries
          /\ Len(calls) = 3 * maxRetries

C5_Witness ==
  /\ FailNTransport
  /\ transport.n = 4
  /\ maxRetries = 2
  /\ Returned
  /\ attempt = 2
  /\ outcome.result.method = "head"

\* C6: whenever the GET step of any attempt cycle receives a 4xx status,
\* probe ends at once with that client error: no further call, no backoff
\* wait and no further cycle, whatever retry budget remains.
C6_ClientErrorTerminal ==
  (Len(cycle) = 3 /\ Is4xx(cycle[3])) =>
     /\ Raised
     /\ InstanceOf(outcome.error, "ClientError")
     /\ outcome.error.statusCode = Some(cycle[3].status)
     /\ Len(calls) = 3 * attempt
     /\ Len(waits) = attempt - 1

C6_Witness ==
  /\ Raised
  /\ attempt = 2
  /\ maxRetries > attempt
  /\ Len(cycle) = 3
  /\ Is4xx(cycle[3])
  /\ lastError = Some(outcome.error)

\* C7: with a transport that answers every request with a 5xx status and
\* maxRetries = M >= 1, probe runs exactly M attempt cycles (3*M calls, a
\* backoff wait between consecutive cycles) and then fails with a
\* ServerError carrying that status.
C7_ServerErrorRetried ==
  (AlwaysTransport(500..599) /\ UrlParses(url) /\ maxRetries >= 1) =>
     /\ (attempt >= 1 => Len(waits) = attempt - 1)
     /\ (Done =>
           /\ attempt = maxRetries
           /\ Len(calls) = 3 * maxRetries
           /\ Len(waits) = maxRetries - 1
           /\ outcome = Throw(ServerError(transport.answer.status))
           /\ InstanceOf(outcome.error, "ServerError"))

C7_Witness ==
  /\ AlwaysTransport({503})
  /\ maxRetries = MaxRetriesBound
  /\ Raised
  /\ Len(calls) = 3 * MaxRetriesBound
  /\ Len(waits) = MaxRetriesBound - 1

\* the error class the taxonomy gives a status at or above 400
KindOfStatus(status) ==
  CASE status = 401 -> "UnauthorizedError"
    [] status = 403 -> "ForbiddenError"
    [] status = 404 -> "NotFoundError"
    [] status \in 400..499 /\ status \notin {401, 403, 404} -> "ClientError"
    [] status >= 500 -> "ServerError"

\* C8: a non-success, non-206 status s at the GET step is classified by s
\* alone: 401 -> Unauthorized, 403 -> Forbidden, 404 -> NotFound, another
\* 4xx -> generic ClientError, 500 and above -> ServerError; the error
\* carries statusCode = s, and the 401/403/404 kinds are ClientError kinds.
C8_Classification ==
  (Len(cycle) = 3 /\ IsResponse(cycle[3]) /\ ~Is2xx(cycle[3])) =>
     /\ lastError.some
     /\ lastError.v.statusCode = Some(cycle[3].status)
     /\ (cycle[3].status >= 400 =>
           lastError.v.cls = KindOfStatus(cycle[3].status))
     /\ (Is4xx(cycle[3]) => InstanceOf(lastError.v, "ClientError"))
     /\ (Done => outcome = Throw(lastError.v))

C8_Witness ==
  /\ Raised
  /\ Len(cycle) = 3
  /\ HasStatus(cycle[3], {403})
  /\ outcome.error.cls = "ForbiddenError"
  /\ outcome.error.statusCode = Some(403)

\* C9: only the GET step finalizes an error: an error status or a failure at
\* the range step or at the HEAD step never ends the attempt and never
\* becomes the raised error; a 404 on the range probe followed by a 2xx HEAD
\* returns method = "head" after two calls; every raised error that carries
\* a status carries the status of the GET-step response.
C9_OnlyGetFinalizes ==
  /\ (Len(cycle) = 1 /\ (IsRejection(cycle[1]) \/ ~Is2xx(cycle[1])) =>
        pc = "head" /\ outcome = NoOutcome)
  /\ (Len(cycle) = 2 /\ (IsRejection(cycle[2]) \/ ~Is2xx(cycle[2])) =>
        pc = "get" /\ outcome = NoOutcome)
  /\ (Len(cycle) \in {1, 2} => lastError = Null \/ attempt > 1)
  /\ (Len(cycle) >= 2 /\ HasStatus(cycle[1], {404}) /\ Is2xx(cycle[2]) =>
        /\ Returned
        /\ outcome.result.method = "head"
        /\ Len(calls) = CallsOfEarlierCycles + 2)
  /\ (Raised /\ calls # <<>> =>
        /\ Len(cycle) = 3
        /\ outcome.error.statusCode.some =>
             /\ IsResponse(cycle[3])
             /\ outcome.error.statusCode.v = cycle[3].status)

C9_Witness ==
  /\ Returned
  /\ attempt = 1
  /\ Len(cycle) = 2
  /\ HasStatus(cycle[1], {404})
  /\ Is2xx(cycle[2])
  /\ outcome.result.method = "head"
  /\ calls = <<RangeRequest, HeadRequest>>

\* C10: for a malformed URL probe fails with an Invalid-URL error before any
\* transport call: no call, no attempt cycle and no backoff wait, for every
\* value of maxRetries.
C10_InvalidUrl ==
  ~UrlParses(url) =>
     /\ pc \in {"start", "done"}
     /\ calls = <<>>
     /\ attempt = 0
     /\ waits = <<>>
     /\ (Done => outcome = Throw(InvalidUrlError))

C10_Witness ==
  /\ url = UrlNotAUrl
  /\ maxRetries = MaxRetriesBound
  /\ Raised
  /\ InstanceOf(outcome.error, "InvalidUrlError")

\* the fields of a complete ProbeResult
ResultFields ==
  {"contentType", "size", "supportsRangeRequests", "isVideo", "isAudio", "method"}

CompleteResult(result) ==
  /\ DOMAIN result = ResultFields
  /\ result.method \in {"range", "head", "get"}
  /\ result.supportsRangeRequests \in BOOLEAN
  /\ result.isVideo \in BOOLEAN
  /\ result.isAudio \in BOOLEAN
  /\ result.size.some \in BOOLEAN
  /\ result.contentType.some \in BOOLEAN

C11_State ==
  /\ Done <=> outcome # NoOutcome
  /\ outcome.t \in {"none", "result", "throw"}
  /\ outcome.t = "result" =>
       DOMAIN outcome = {"t", "result"} /\ CompleteResult(outcome.result)
  /\ outcome.t = "throw" =>
       DOMAIN outcome = {"t", "error"} /\ outcome.error.cls \in ErrorClasses
  /\ Done => Len(calls) = CallsOfEarlierCycles + Len(cycle)

C11_Step == outcome # NoOutcome => UNCHANGED <<outcome, calls, pc>>

\* C11: a probe call that ends has exactly one outcome, a complete
\* ProbeResult or one raised error, never both and never a partial result;
\* when the outcome is produced no request is in flight, and afterwards the
\* outcome does not change and no further request is issued.
C11_OneOutcome == []C11_State /\ [][C11_Step]_vars

C11_Witness ==
  /\ Returned
  /\ outcome.result.method = "get"
  /\ ~outcome.result.size.some
  /\ attempt = 2
  /\ Len(calls) = 6

(***************************************************************************)
(* A second specification, for the fields of the result: the same call,    *)
(* on URLs with and without media extensions and on the two CDN hosts,     *)
(* with the platform quirks on and off, against a transport that answers   *)
(* every call with any answer of a pool of responses carrying content-type,*)
(* content-length, content-range and accept-ranges headers.                *)
(***************************************************************************)
FieldsMaxRetries == 2

UrlFile ==
  <<"h", "t", "t", "p", "s", ":", "/", "/", "e", "x", "a", "m", "p", "l",
    "e", ".", "c", "o", "m", "/", "f", "i", "l", "e">>
UrlVideoWebm ==
  <<"h", "t", "t", "p", "s", ":", "/", "/", "e", "x", "a", "m", "p", "l",
    "e", ".", "c", "o", "m", "/", "v", "i", "d", "e", "o", ".", "w", "e",
    "b", "m">>
UrlAudioMp3 ==
  <<"h", "t", "t", "p", "s", ":", "/", "/", "e", "x", "a", "m", "p", "l",
    "e", ".", "c", "o", "m", "/", "a", "u", "d", "i", "o", ".", "m", "p",
    "3">>
UrlTikTokAudio ==
  <<"h", "t", "t", "p", "s", ":", "/", "/", "v", "1", "9", ".", "t", "i",
    "k", "t", "o", "k", "c", "d", "n", "-", "u", "s", ".", "c", "o", "m",
    "/", "f", "i", "l", "e", "?", "m", "i", "m", "e", "_", "t", "y", "p",
    "e", "=", "a", "u", "d", "i", "o", "_", "m", "p", "e", "g">>
UrlGoogleCodecs ==
  <<"h", "t", "t", "p", "s", ":", "/", "/", "r", "r", "1", "-", "-", "-",
    "s", "n", "-", "t", "e", "s", "t", ".", "g", "o", "o", "g", "l", "e",
    "v", "i", "d", "e", "o", ".", "c", "o", "m", "/", "v", "i", "d", "e",
    "o", "p", "l", "a", "y", "b", "a", "c", "k", "?", "m", "i", "m", "e",
    "=", "a", "u", "d", "i", "o", "%", "2", "F", "m", "p", "4", "%", "3",
    "B", "%", "2", "0", "c", "o", "d", "e", "c", "s", "%", "3", "D", "o",
    "p", "u", "s">>

UrlGoogleNoMime ==
  <<"h", "t", "t", "p", "s", ":", "/", "/", "r", "r", "1", "-", "-", "-",
    "s", "n", "-", "t", "e", "s", "t", ".", "g", "o", "o", "g", "l", "e",
    "v", "i", "d", "e", "o", ".", "c", "o", "m", "/", "v", "i", "d", "e",
    "o", "p", "l", "a", "y", "b", "a", "c", "k", "?", "o", "t", "h", "e",
    "r", "=", "p", "a", "r", "a", "m", "s">>

\* a hostname with the tokens of both CDNs
UrlTikTokGoogle ==
  <<"h", "t", "t", "p", "s", ":", "/", "/", "t", "i", "k", "t", "o", "k",
    "c", "d", "n", ".", "g", "o", "o", "g", "l", "e", "v", "i", "d", "e",
    "o", ".", "c", "o", "m", "/", "f", "i", "l", "e", "?", "m", "i", "m",
    "e", "_", "t", "y", "p", "e", "=", "v", "i", "d", "e", "o", "_", "w",
    "e", "b", "m">>

FieldsUrls ==
  {UrlVideoMp4, UrlFile, UrlVideoWebm, UrlAudioMp3, UrlTikTokAudio,
   UrlGoogleCodecs, UrlGoogleNoMime, UrlTikTokGoogle}

CtVideoMp4 == <<"v", "i", "d", "e", "o", "/", "m", "p", "4">>
CtVideoMp4Codecs ==
  <<"V", "i", "d", "e", "o", "/", "M", "P", "4", ";", " ", "c", "o", "d",
    "e", "c", "s", "=", "a", "v", "c", "1">>
CtAudioMpeg == <<"a", "u", "d", "i", "o", "/", "m", "p", "e", "g">>
CtAudioMp4Codecs ==
  <<"a", "u", "d", "i", "o", "/", "m", "p", "4", ";", " ", "c", "o", "d",
    "e", "c", "s", "=", "o", "p", "u", "s">>
CharsMinus5 == <<"-", "5">>
CharsOne == <<"1">>

CtVideoWebm == <<"v", "i", "d", "e", "o", "/", "w", "e", "b", "m">>
CtVideoMp2t == <<"v", "i", "d", "e", "o", "/", "m", "p", "2", "t">>
CtAudioUnknown ==
  <<"a", "u", "d", "i", "o", "/", "u", "n", "k", "n", "o", "w", "n", "-",
    "f", "o", "r", "m", "a", "t">>

\* a Response with the given status line and headers
Answer(status, contentRange, contentLength, acceptRanges, contentType) ==
  [kind |-> "response", status |-> status, contentRange |-> contentRange,
   contentLength |-> contentLength, acceptRanges |-> acceptRanges,
   contentType |-> contentType]

\* the answers of the transport
FieldsPool ==
  {Answer(206, Some(CRValid), Null, Null, Some(CtVideoMp4)),
   Answer(206, Some(CRValid), Some(CharsOne), Null, Some(CtVideoMp4)),
   Answer(206, Some(CRNoTotal), Some(Chars1000), Null, Some(CtAudioMpeg)),
   Answer(200, Null, Some(Chars1000), Some("bytes"), Some(CtVideoMp4Codecs)),
   Answer(200, Null, Some(CharsMinus5), Null, Some(CtVideoMp4)),
   Answer(200, Null, Null, Null, Null),
   Answer(200, Null, Null, Null, Some(CtVideoMp2t)),
   Answer(200, Null, Null, Null, Some(CtAudioUnknown)),
   Answer(405, Null, Null, Null, Null),
   Answer(500, Null, Null, Null, Null),
   [kind |-> "reject", name |-> "TypeError"]}

InitFields ==
  /\ url \in FieldsUrls
  /\ maxRetries \in 1..FieldsMaxRetries
  /\ transport = [mode |-> "pool", pool |-> FieldsPool]
  /\ pc = "start"
  /\ attempt = 0
  /\ lastError = Null
  /\ calls = <<>>
  /\ cycle = <<>>
  /\ waits = <<>>
  /\ outcome = NoOutcome
  /\ options \in [headers : {Null}, followRedirects : {Null},
                  allowPlatformQuirks : {Null, Some(TRUE), Some(FALSE)}]
  /\ earlier = Null
  /\ peer = Null
  /\ reason = Null
  /\ fired = {}

SpecFields == InitFields /\ [][Next]_vars

\* the answer to the last call, and the request it answers
LastAnswer == cycle[Len(cycle)]
LastCall == calls[Len(calls)]

\* C12: in every returned result, method names the step of the last call
\* made to the transport, and contentType, size and supportsRangeRequests
\* are those of the answer to that call: no value comes from the answer to
\* an earlier, declined step.
C12_MethodNamesLastStep ==
  Returned =>
    LET result == outcome.result
        last == LastAnswer
    IN /\ Len(calls) = CallsOfEarlierCycles + Len(cycle)
       /\ result.method = LastCall.step
       /\ IsResponse(last)
       /\ LET fromRange == ExtractSizeFromContentRange(last.contentRange)
              fromLength == ExtractSizeFromContentLength(last.contentLength)
          IN /\ result.contentType = ContentTypeOf(last)
             /\ result.size =
                  CASE result.method = "range" -> fromRange
                    [] result.method = "head" -> fromLength
                    [] result.method = "get" ->
                         IF fromRange.some THEN fromRange ELSE fromLength
             /\ result.supportsRangeRequests =
                  CASE result.method = "range" -> TRUE
                    [] result.method = "head" -> last.acceptRanges = Some("bytes")
                    [] result.method = "get" ->
                         (last.acceptRanges = Some("bytes") \/ last.status = 206)

\* the range answer carries a content-length and is declined; the HEAD
\* answer carries none, and the result reports no size
C12_Witness ==
  /\ Returned
  /\ outcome.result.method = "head"
  /\ Len(cycle) = 2
  /\ IsResponse(cycle[1])
  /\ cycle[1].contentLength = Some(Chars1000)
  /\ LastAnswer.contentLength = Null
  /\ ~outcome.result.size.some

\* C13: in every returned result, whichever method produced it, size, if
\* present, is >= 0, for every content-range and content-length value the
\* server may send, a content-length with a leading minus sign included.
C13_SizeNonNegative ==
  Returned /\ outcome.result.size.some => outcome.result.size.v >= 0

\* C14: in every returned result, with the platform quirks on or off and
\* whichever method produced it, contentType, if present, is lowercase and
\* has no ';' parameter segment, also when the quirk corrector took it
\* from a query parameter of the URL.
C14_NormalizedContentType ==
  Returned /\ outcome.result.contentType.some =>
    LET contentType == outcome.result.contentType.v IN
    /\ contentType = ToLowerCase(contentType)
    /\ \A i \in 1..Len(contentType) : contentType[i] # ";"

\* the URL ends with an extension of the video or of the audio table
HasMediaExtension(u) ==
  ExtensionTest(u, VideoExtensions) \/ ExtensionTest(u, AudioExtensions)

C16_TikTokQuirk ==
  /\ IsTikTokCDN(UrlTikTokAudio)
  /\ ~HasMediaExtension(UrlTikTokAudio)
  /\ (/\ Returned
      /\ url = UrlTikTokAudio
      /\ NormalizeContentType(LastAnswer.contentType) = Some(CtVideoMp4))
       => LET result == outcome.result IN
          IF options.allowPlatformQuirks = Some(TRUE)
          THEN /\ result.contentType = Some(CtAudioMpeg)
               /\ result.isAudio
               /\ ~result.isVideo
          ELSE /\ result.contentType = Some(CtVideoMp4)
               /\ result.isVideo

\* the GET fallback returns the corrected type
C16_Witness ==
  /\ Returned
  /\ url = UrlTikTokAudio
  /\ options.allowPlatformQuirks = Some(TRUE)
  /\ outcome.result.method = "get"
  /\ LastAnswer.contentType = Some(CtVideoMp4Codecs)
  /\ outcome.result.contentType = Some(CtAudioMpeg)
  /\ outcome.result.isAudio

(***************************************************************************)
(* A third specification, for the requests: the same call on one URL, with *)
(* and without caller headers (a caller-supplied Range among them) and     *)
(* with followRedirects absent, true and false.                            *)
(***************************************************************************)
RequestsMaxRetries == 2

\* the headers option
HeaderOptions ==
  {Null,
   Some({<<"User-Agent", "TestAgent/1.0">>, <<"Authorization", "Bearer token123">>}),
   Some({<<"User-Agent", "TestAgent/1.0">>, <<"Range", "bytes=0-99">>}),
   Some({<<"range", "bytes=5-9">>})}

\* the answers of the transport
RequestsPool ==
  {Answer(206, Some(CRValid), Null, Null, Some(CtVideoMp4)),
   Answer(200, Null, Some(Chars1000), Some("bytes"), Some(CtVideoMp4)),
   Answer(405, Null, Null, Null, Null),
   Answer(404, Null, Null, Null, Null),
   Answer(500, Null, Null, Null, Null),
   [kind |-> "reject", name |-> "TypeError"]}

InitRequests ==
  /\ url = UrlVideoMp4
  /\ maxRetries \in 1..RequestsMaxRetries
  /\ transport = [mode |-> "pool", pool |-> RequestsPool]
  /\ pc = "start"
  /\ attempt = 0
  /\ lastError = Null
  /\ calls = <<>>
  /\ cycle = <<>>
  /\ waits = <<>>
  /\ outcome = NoOutcome
  /\ options \in [headers : HeaderOptions,
                  followRedirects : {Null, Some(TRUE), Some(FALSE)},
                  allowPlatformQuirks : {Null}]
  /\ earlier = Null
  /\ peer = Null
  /\ reason = Null
  /\ fired = {}

SpecRequests == InitRequests /\ [][Next]_vars

\* the header pairs the caller supplies
CallerHeaders == IF options.headers.some THEN options.headers.v ELSE {}

\* C17: every header name/value pair the caller supplies in options.headers
\* is present, with the caller's value, in every outgoing request of every
\* step of every attempt; none is dropped or overwritten, a caller-supplied
\* Range header included.
C17_CallerHeadersKept ==
  \A i \in 1..Len(calls) : \A pair \in CallerHeaders : pair \in calls[i].headers

\* C18: the range request and the GET fallback request are GET requests
\* that carry Range: bytes=0-0 together with the caller's headers of other
\* names and nothing else; the HEAD request is a HEAD request that carries
\* exactly the caller's headers, so no Range header the caller did not give.
C18_RangeHeaderOnGetOnly ==
  \A i \in 1..Len(calls) :
    LET request == calls[i] IN
    IF request.step = "head"
    THEN /\ request.method = "HEAD"
         /\ request.headers = CallerHeaders
    ELSE /\ request.step \in {"range", "get"}
         /\ request.method = "GET"
         /\ request.headers =
              {pair \in CallerHeaders : pair[1] # "Range"}
                \cup {<<"Range", "bytes=0-0">>}

\* one cycle of three requests with caller headers that hold no Range: only
\* the first and the third carry one
C18_Witness ==
  /\ Len(calls) >= 3
  /\ options.headers.some
  /\ \A pair \in CallerHeaders : pair[1] \notin {"Range", "range"}
  /\ calls[2].step = "head"
  /\ \A pair \in calls[2].headers : pair[1] # "Range"
  /\ calls[3].step = "get"
  /\ <<"Range", "bytes=0-0">> \in calls[1].headers \cap calls[3].headers

\* C19: every request of a call, in all three steps and in every attempt,
\* carries redirect policy 'follow' when followRedirects is true or absent
\* (true is the default) and 'manual' when it is false; the policy is the
\* same in every request of the call.
C19_RedirectPolicy ==
  \A i \in 1..Len(calls) :
    /\ calls[i].redirect =
         (IF options.followRedirects = Some(FALSE) THEN "manual" ELSE "follow")
    /\ calls[i].redirect = calls[1].redirect

\* followRedirects is false and the call is in its second attempt, after
\* the three requests of the first
C19_Witness ==
  /\ options.followRedirects = Some(FALSE)
  /\ attempt = 2
  /\ Len(calls) = 6
  /\ {calls[i].step : i \in 1..3} = {"range", "head", "get"}
  /\ \A i \in 1..Len(calls) : calls[i].redirect = "manual"

(***************************************************************************)
(* A fourth specification, for two calls in a row: the same url and        *)
(* options, against a transport whose answer depends only on the position  *)
(* of the request in the call.  When the first call is done, its requests  *)
(* and its outcome are kept in earlier and the call is made again.         *)
(***************************************************************************)
ReplayMaxRetries == 2
ReplayMaxFirst == 3

\* the answers of the transport
ReplayPool ==
  {Answer(206, Some(CRValid), Null, Null, Some(CtVideoMp4)),
   Answer(200, Null, Some(Chars1000), Some("bytes"), Some(CtVideoMp4Codecs)),
   Answer(405, Null, Null, Null, Null),
   Answer(404, Null, Null, Null, Null),
   Answer(500, Null, Null, Null, Null),
   [kind |-> "reject", name |-> "TypeError"],
   [kind |-> "reject", name |-> "AbortError"]}

\* the deterministic transports: the first n requests of a call get one
\* answer, the later ones another
ReplayTransports ==
  [mode : {"script"}, n : 0..ReplayMaxFirst, first : ReplayPool, rest : ReplayPool]

ReplayOptions ==
  {NoOptions,
   [headers |-> Some({<<"Range", "bytes=0-99">>}),
    followRedirects |-> Some(FALSE),
    allowPlatformQuirks |-> Some(TRUE)]}

InitReplay ==
  /\ url \in {UrlVideoMp4, UrlTikTokAudio, UrlNotAUrl}
  /\ maxRetries \in 0..ReplayMaxRetries
  /\ transport \in ReplayTransports
  /\ pc = "start"
  /\ attempt = 0
  /\ lastError = Null
  /\ calls = <<>>
  /\ cycle = <<>>
  /\ waits = <<>>
  /\ outcome = NoOutcome
  /\ options \in ReplayOptions
  /\ earlier = Null
  /\ peer = Null
  /\ reason = Null
  /\ fired = {}

\* the first call is over: probeMedia is called again with the same
\* arguments; the locals of the new call are fresh
CallAgain ==
  /\ pc = "done"
  /\ earlier = Null
  /\ earlier' = Some([calls |-> calls, outcome |-> outcome])
  /\ pc' = "start"
  /\ attempt' = AttemptAtEntry
  /\ lastError' = Null
  /\ calls' = <<>>
  /\ cycle' = <<>>
  /\ waits' = <<>>
  /\ outcome' = NoOutcome
  /\ UNCHANGED <<url, maxRetries, transport, options, peer, reason, fired>>

NextReplay ==
  \/ Start
  \/ RangeSettles
  \/ HeadSettles
  \/ GetSettles
  \/ BackoffElapses
  \/ CallAgain

SpecReplay == InitReplay /\ [][NextReplay]_vars

ConcMaxRetries == 2
ConcMaxFirst == 2

\* the answers of the transport
ConcPool ==
  {Answer(206, Some(CRValid), Null, Null, Some(CtVideoMp4)),
   Answer(404, Null, Null, Null, Null),
   Answer(500, Null, Null, Null, Null),
   [kind |-> "reject", name |-> "AbortError"]}

\* the shared transport: the first n requests of a call get one answer,
\* its later ones another
ConcTransports ==
  [mode : {"script"}, n : 0..ConcMaxFirst, first : ConcPool, rest : ConcPool]

\* the options of call B
ConcOptions ==
  {NoOptions,
   [headers |-> Some({<<"User-Agent", "TestAgent/1.0">>}),
    followRedirects |-> Some(FALSE),
    allowPlatformQuirks |-> Null]}

InitConcurrent ==
  /\ url = UrlVideoMp4
  /\ maxRetries \in 1..ConcMaxRetries
  /\ transport \in ConcTransports
  /\ pc = "start"
  /\ attempt = 0
  /\ lastError = Null
  /\ calls = <<>>
  /\ cycle = <<>>
  /\ waits = <<>>
  /\ outcome = NoOutcome
  /\ options = NoOptions
  /\ earlier = Null
  /\ peer = Null
  /\ reason = Null
  /\ fired = {}

\* the arguments and locals of the call that takes steps, as call id
Frame(id) ==
  [id |-> id, url |-> url, maxRetries |-> maxRetries, options |-> options,
   pc |-> pc, attempt |-> attempt, lastError |-> lastError, calls |-> calls,
   cycle |-> cycle, waits |-> waits, outcome |-> outcome]

\* the arguments and locals of a call that has not started
NewFrame(id, u, retries, opts) ==
  [id |-> id, url |-> u, maxRetries |-> retries, options |-> opts,
   pc |-> "start", attempt |-> AttemptAtEntry, lastError |-> Null,
   calls |-> <<>>, cycle |-> <<>>, waits |-> <<>>, outcome |-> NoOutcome]

OtherId(id) == IF id = "A" THEN "B" ELSE "A"

\* call A is over: it is called again with the same arguments, and call B
\* is made before A takes a step
CallConcurrently ==
  /\ pc = "done"
  /\ earlier = Null
  /\ peer = Null
  /\ earlier' = Some([calls |-> calls, outcome |-> outcome])
  /\ \E retries \in 1..ConcMaxRetries : \E opts \in ConcOptions :
       peer' = Some(NewFrame("B", UrlVideoMp4, retries, opts))
  /\ pc' = "start"
  /\ attempt' = AttemptAtEntry
  /\ lastError' = Null
  /\ calls' = <<>>
  /\ cycle' = <<>>
  /\ waits' = <<>>
  /\ outcome' = NoOutcome
  /\ UNCHANGED <<url, maxRetries, transport, options, reason, fired>>

\* the attempt counter a call finds when it goes on, were the counter one
\* variable of the module shared by all calls
ResumedAttemptShared(saved) == attempt

\* the attempt counter a call finds when it goes on: its own local
ResumedAttempt(saved) == saved.attempt

\* the call that takes steps awaits, and the other call goes on
Switch ==
  /\ peer # Null
  /\ peer' = Some(Frame(OtherId(peer.v.id)))
  /\ url' = peer.v.url
  /\ maxRetries' = peer.v.maxRetries
  /\ options' = peer.v.options
  /\ pc' = peer.v.pc
  /\ attempt' = ResumedAttempt(peer.v)
  /\ lastError' = peer.v.lastError
  /\ calls' = peer.v.calls
  /\ cycle' = peer.v.cycle
  /\ waits' = peer.v.waits
  /\ outcome' = peer.v.outcome
  /\ UNCHANGED <<transport, earlier, reason, fired>>

NextConcurrent ==
  \/ Start
  \/ RangeSettles
  \/ HeadSettles
  \/ GetSettles
  \/ BackoffElapses
  \/ CallConcurrently
  \/ Switch

SpecConcurrent == InitConcurrent /\ [][NextConcurrent]_vars

\* the two concurrent calls
FrameOf(id) == IF peer.v.id = id THEN peer.v ELSE Frame(id)

IsPrefix(s, t) == Len(s) <= Len(t) /\ s = SubSeq(t, 1, Len(s))

\* every request of a call follows the options of that call
OwnOptions(frame) ==
  \A i \in 1..Len(frame.calls) :
    /\ frame.calls[i].redirect =
         (IF frame.options.followRedirects = Some(FALSE) THEN "manual"
          ELSE "follow")
    /\ \A pair \in frame.calls[i].headers :
         \/ pair = <<"Range", "bytes=0-0">>
         \/ frame.options.headers.some /\ pair \in frame.options.headers.v

C21_State ==
  peer # Null =>
    /\ IsPrefix(FrameOf("A").calls, earlier.v.calls)
    /\ FrameOf("A").pc = "done" =>
         /\ FrameOf("A").calls = earlier.v.calls
         /\ FrameOf("A").outcome = earlier.v.outcome
    /\ OwnOptions(FrameOf("A"))
    /\ OwnOptions(FrameOf("B"))
    /\ FrameOf("A").attempt <= FrameOf("A").maxRetries
    /\ FrameOf("B").attempt <= FrameOf("B").maxRetries

\* a step of one call leaves the arguments and locals of the other as they
\* were
C21_Step ==
  (peer # Null /\ peer' # Null /\ peer'.v.id = peer.v.id) => peer' = peer

InTaxonomy(error) ==
  \/ error.cls = "InvalidUrlError" /\ error.statusCode = Null
  \/ error.cls = "TimeoutError" /\ error.statusCode = Null
  \/ /\ error.cls \in {"ClientError", "NotFoundError", "ForbiddenError",
                       "UnauthorizedError"}
     /\ error.statusCode.some
     /\ error.statusCode.v \in 400..499
  \/ /\ error.cls = "ServerError"
     /\ error.statusCode.some
     /\ error.statusCode.v >= 500
  \/ error.cls = "NetworkError" /\ error.statusCode = Null
  \/ error.cls = "MaxRetriesExceededError" /\ error.statusCode = Null

RetryableAnswer(settled) == IsRejection(settled) \/ Is5xx(settled)

ErrorOfAnswer(settled) ==
  IF IsRejection(settled)
  THEN IF settled.name = "AbortError"
       THEN [cls |-> "TimeoutError", code |-> "TIMEOUT", statusCode |-> Null]
       ELSE [cls |-> "NetworkError", code |-> "NETWORK_ERROR", statusCode |-> Null]
  ELSE [cls |-> "ServerError", code |-> "NETWORK_ERROR",
        statusCode |-> Some(settled.status)]

\* C23: when all maxRetries attempt cycles end in retryable failures, the
\* error raised is the one of the last cycle, not the first one seen and
\* not a max-retries-exceeded error: a 5xx in cycle 1 followed by a timeout
\* in the final cycle raises the Timeout error.
C23_LastErrorRaised ==
  (/\ Done
   /\ maxRetries >= 1
   /\ attempt = maxRetries
   /\ Len(cycle) = 3
   /\ RetryableAnswer(cycle[3]))
    => /\ outcome = Throw(ErrorOfAnswer(cycle[3]))
       /\ lastError = Some(outcome.error)
       /\ Len(waits) = maxRetries - 1

\* the first three requests are answered 500, the later ones time out, and
\* the second attempt is the last
C23_Witness ==
  /\ transport.n = 3
  /\ transport.first = Answer(500, Null, Null, Null, Null)
  /\ transport.rest = [kind |-> "reject", name |-> "AbortError"]
  /\ maxRetries = 2
  /\ Raised
  /\ Len(calls) = 6
  /\ outcome.error.cls = "TimeoutError"

BackoffMaxRetries == 7

\* the answers of the transport
BackoffPool ==
  {Answer(206, Some(CRValid), Null, Null, Some(CtVideoMp4)),
   Answer(404, Null, Null, Null, Null),
   Answer(503, Null, Null, Null, Null),
   [kind |-> "reject", name |-> "AbortError"]}

InitBackoff ==
  /\ url = UrlVideoMp4
  /\ maxRetries \in 1..BackoffMaxRetries
  /\ transport = [mode |-> "pool", pool |-> BackoffPool]
  /\ pc = "start"
  /\ attempt = 0
  /\ lastError = Null
  /\ calls = <<>>
  /\ cycle = <<>>
  /\ waits = <<>>
  /\ outcome = NoOutcome
  /\ options = NoOptions
  /\ earlier = Null
  /\ peer = Null
  /\ reason = Null
  /\ fired = {}

SpecBackoff == InitBackoff /\ [][Next]_vars

\* min(1000 k, 5000)
CappedDelay(k) == IF 1000 * k < 5000 THEN 1000 * k ELSE 5000

C25_State ==
  /\ Len(waits) = (IF attempt = 0 THEN 0 ELSE attempt - 1)
  /\ \A k \in 1..Len(waits) : waits[k] = CappedDelay(k)
  /\ pc = "backoff" =>
       /\ attempt < maxRetries
       /\ Len(cycle) = 3
       /\ RetryableAnswer(cycle[3])
  /\ (Len(cycle) = 3 /\ RetryableAnswer(cycle[3]) /\ attempt < maxRetries)
       => pc = "backoff"

\* a wait happens only when the timer of a backoff runs out, and then the
\* next cycle starts
C25_Step ==
  waits' # waits =>
    /\ pc = "backoff"
    /\ waits' = Append(waits, CappedDelay(attempt))
    /\ attempt' = attempt + 1
    /\ pc' = "range"

TimersMaxRetries == 2

\* the answers of the transport
TimersPool ==
  {Answer(206, Some(CRValid), Null, Null, Some(CtVideoMp4)),
   Answer(200, Null, Some(Chars1000), Some("bytes"), Some(CtVideoMp4)),
   Answer(405, Null, Null, Null, Null),
   Answer(404, Null, Null, Null, Null),
   Answer(500, Null, Null, Null, Null),
   [kind |-> "reject", name |-> "TypeError"]}

InitTimers ==
  /\ url = UrlVideoMp4
  /\ maxRetries \in 1..TimersMaxRetries
  /\ transport = [mode |-> "pool", pool |-> TimersPool]
  /\ pc = "start"
  /\ attempt = 0
  /\ lastError = Null
  /\ calls = <<>>
  /\ cycle = <<>>
  /\ waits = <<>>
  /\ outcome = NoOutcome
  /\ options = NoOptions
  /\ earlier = Null
  /\ peer = Null
  /\ reason = Null
  /\ fired = {}

\* a controller whose timer is never armed
DeadlineNeverElapses == FALSE /\ UNCHANGED vars

\* setTimeout(() => controller.abort(), timeout) fires while the request is
\* in flight
DeadlineElapses ==
  /\ pc \in {"range", "head", "get"}
  /\ pc' = Aborted(pc)
  /\ UNCHANGED <<url, maxRetries, transport, attempt, lastError, calls, cycle,
                 waits, outcome, options, earlier, peer, reason, fired>>

\* the transport rejects the request whose signal has fired
AbortedSettles ==
  /\ pc \in {Aborted("range"), Aborted("head"), Aborted("get")}
  /\ (RangeSettles \/ HeadSettles \/ GetSettles)

NextTimers ==
  \/ Start
  \/ RangeSettles
  \/ HeadSettles
  \/ GetSettles
  \/ BackoffElapses
  \/ DeadlineElapses

SpecTimers == InitTimers /\ [][NextTimers]_vars

\* the deadline of the GET request has run out and the request is rejected:
\* the failure is a timeout, retried if attempts remain and raised if not
C26_Step ==
  pc = Aborted("get") =>
    /\ lastError' = Some([cls |-> "TimeoutError", code |-> "TIMEOUT",
                          statusCode |-> Null])
    /\ cycle' = Append(cycle, AbortRejection)
    /\ calls' = calls
    /\ IF attempt < maxRetries
       THEN pc' = "backoff" /\ outcome' = NoOutcome
       ELSE pc' = "done" /\ outcome' = Throw(lastError'.v)

\* a request whose deadline has run out is still in flight; a timeout is
\* raised only after the deadline of a GET request ran out
C26_State ==
  /\ pc \in {Aborted("range"), Aborted("head"), Aborted("get")} =>
       /\ Len(calls) = CallsOfEarlierCycles + Len(cycle) + 1
       /\ outcome = NoOutcome
  /\ pc = "backoff" /\ cycle[3] = AbortRejection =>
       lastError.v.cls = "TimeoutError"
  /\ (Raised /\ outcome.error.cls = "TimeoutError") =>
       (Len(cycle) = 3 /\ cycle[3] = AbortRejection /\ attempt = maxRetries)

\* C26: when the deadline of the GET request runs out before the transport
\* responds, the request is cancelled through its signal and the attempt
\* fails with a Timeout error, not a generic NetworkError; the failure is
\* retried if attempts remain and raised as Timeout on the last attempt.
C26_Timeout == []C26_State /\ [][C26_Step]_vars

\* the deadline ran out in the first attempt, was retried, and ran out
\* again in the second and last attempt
C26_Witness ==
  /\ Raised
  /\ outcome.error.cls = "TimeoutError"
  /\ maxRetries = 2
  /\ attempt = 2
  /\ waits = <<1000>>
  /\ cycle[3] = AbortRejection

(***************************************************************************)
(* Liveness.  The timers of the runtime fire, the call is started, and the *)
(* transport rejects a request whose signal has fired; whether the         *)
(* transport answers on its own is left open.                              *)
(***************************************************************************)
FairTimers ==
  /\ WF_vars(Start)
  /\ WF_vars(BackoffElapses)
  /\ WF_vars(DeadlineElapses)
  /\ WF_vars(AbortedSettles)

SpecLive == InitTimers /\ [][NextTimers]_vars /\ FairTimers

\* the call never makes more than maxRetries attempt cycles of three
\* requests
BoundedCycles ==
  /\ attempt <= maxRetries
  /\ Len(calls) <= 3 * maxRetries
  /\ Len(waits) < maxRetries

\* C27: every call eventually reaches a terminal outcome, a result or an
\* error: provided each transport call responds, rejects, or rejects once
\* its signal has fired, no step waits forever, and the call ends after at
\* most maxRetries attempt cycles.
C27_Terminates == <>Done /\ []BoundedCycles /\ [](Done => outcome # NoOutcome)

\* the call ended after its last allowed cycle, all of whose requests ran
\* into their deadline
C27_Witness ==
  /\ Done
  /\ maxRetries = 2
  /\ attempt = 2
  /\ Len(calls) = 6
  /\ cycle = <<AbortRejection, AbortRejection, AbortRejection>>

\* the number of requests of the current cycle, and of those in flight
RequestsOfCycle == Len(calls) - CallsOfEarlierCycles
InFlight == RequestsOfCycle - Len(cycle)

C28_State ==
  /\ \A i \in 1..Len(calls) :
       calls[i].step = CASE i % 3 = 1 -> "range"
                         [] i % 3 = 2 -> "head"
                         [] i % 3 = 0 -> "get"
  /\ InFlight = (IF pc \in {"range", "head", "get"} THEN 1 ELSE 0)
  /\ RequestsOfCycle \in 0..3
  /\ RequestsOfCycle >= 2 =>
       /\ Len(cycle) >= 1
       /\ ~Partial206WithSize(cycle[1])
  /\ RequestsOfCycle = 3 =>
       /\ Len(cycle) >= 2
       /\ HeadDeclines(cycle[2])

\* a request is issued in the step in which the one before it completes,
\* or when a cycle starts with no request in flight
C28_Step ==
  calls' # calls =>
    /\ Len(calls') = Len(calls) + 1
    /\ calls = SubSeq(calls', 1, Len(calls))
    /\ LET request == calls'[Len(calls')] IN
       CASE request.step = "range" -> pc \in {"start", "backoff"}
         [] request.step = "head" -> pc = "range" /\ Len(cycle') = 1
         [] request.step = "get" -> pc = "head" /\ Len(cycle') = 2

\* C28: within an attempt cycle the steps are sequential, in the order
\* range, HEAD, GET: at most one request is in flight at any time, the
\* HEAD request is issued only after the range request has completed and
\* declined, and the GET request only after the HEAD request has completed
\* and declined.
C28_Sequential == []C28_State /\ [][C28_Step]_vars

\* the GET request of the second cycle is in flight, after a range answer
\* 206 without total size and a HEAD answer 405
C28_Witness ==
  /\ pc = "get"
  /\ attempt = 2
  /\ Len(calls) = 6
  /\ Len(cycle) = 2
  /\ HasStatus(cycle[1], {206})
  /\ HasStatus(cycle[2], {405})

\* C29: isVideoContent is true for every content type with the video/
\* prefix, subtypes outside the fixed list included (video/mp2t), and
\* isAudioContent is true for every content type with the audio/ prefix
\* (audio/unknown-format), whatever the URL is.
C29_AnySubtype ==
  (Returned /\ outcome.result.contentType.some) =>
    LET contentType == outcome.result.contentType.v IN
    /\ StartsWith(contentType, VideoSlash) => outcome.result.isVideo
    /\ StartsWith(contentType, AudioSlash) => outcome.result.isAudio

TopLevel(contentType) == BeforeFirst(contentType, "/")

\* the query type and the server type are both present and their top-level
\* tokens differ
Conflicting(queryMimeType, serverContentType) ==
  /\ queryMimeType.some
  /\ serverContentType.some
  /\ TopLevel(queryMimeType.v) # TopLevel(serverContentType.v)

\* C31 as stated: on a tiktokcdn hostname with the platform quirks on and a
\* server content type present, the result carries the query type only
\* when its top-level token differs from the server type's, and the server
\* type otherwise, a hostname with both CDN tokens included.
C31_Original ==
  (/\ Returned
   /\ options.allowPlatformQuirks = Some(TRUE)
   /\ IsTikTokCDN(url)
   /\ NormalizeContentType(LastAnswer.contentType).some)
    => LET server == NormalizeContentType(LastAnswer.contentType)
           query == ExtractMimeTypeFromQuery(url)
       IN outcome.result.contentType =
            IF Conflicting(query, server) THEN query ELSE server

\* C31: on a tiktokcdn hostname with the platform quirks on and a server
\* content type present, the result carries the query type when its
\* top-level token differs from the server type's; otherwise it carries the
\* server type unchanged unless the hostname has the googlevideo.com token
\* too, and then the Google rule applies and it carries the query type.
C31_TikTokThenGoogle ==
  /\ IsTikTokCDN(UrlTikTokAudio) /\ ~IsGoogleCDN(UrlTikTokAudio)
  /\ IsTikTokCDN(UrlTikTokGoogle) /\ IsGoogleCDN(UrlTikTokGoogle)
  /\ (/\ Returned
      /\ options.allowPlatformQuirks = Some(TRUE)
      /\ IsTikTokCDN(url)
      /\ NormalizeContentType(LastAnswer.contentType).some)
       => LET server == NormalizeContentType(LastAnswer.contentType)
              query == ExtractMimeTypeFromQuery(url)
          IN outcome.result.contentType =
               IF Conflicting(query, server) THEN query
               ELSE IF IsGoogleCDN(url) /\ query.some THEN query
               ELSE server

\* the hostname has both tokens, the server says video/mp4 and the query
\* video/webm: no conflict, and the query type is returned
C31_Witness ==
  /\ Returned
  /\ options.allowPlatformQuirks = Some(TRUE)
  /\ url = UrlTikTokGoogle
  /\ LastAnswer.contentType = Some(CtVideoMp4)
  /\ outcome.result.contentType = Some(CtVideoWebm)

(***************************************************************************)
(* A specification for getQuirkReason, which no probe step calls: it is    *)
(* applied to URLs on either CDN, on both, on neither and to a string that *)
(* is no URL, with original and corrected types that are null, empty or a  *)
(* MIME type.                                                              *)
(***************************************************************************)
CtOctetStream ==
  <<"a", "p", "p", "l", "i", "c", "a", "t", "i", "o", "n", "/", "o", "c",
    "t", "e", "t", "-", "s", "t", "r", "e", "a", "m">>
TikTokName == <<"T", "i", "k", "T", "o", "k">>
GoogleName == <<"G", "o", "o", "g", "l", "e">>

ReasonUrls ==
  {UrlVideoMp4, UrlFile, UrlTikTokAudio, UrlGoogleCodecs, UrlTikTokGoogle,
   UrlNotAUrl}

ReasonTypes ==
  {Null, Some(<<>>), Some(CtVideoMp4), Some(CtAudioMpeg), Some(CtOctetStream)}

InitReason ==
  /\ url \in ReasonUrls
  /\ maxRetries = 1
  /\ transport = [mode |-> "any"]
  /\ pc = "start"
  /\ attempt = 0
  /\ lastError = Null
  /\ calls = <<>>
  /\ cycle = <<>>
  /\ waits = <<>>
  /\ outcome = NoOutcome
  /\ options = NoOptions
  /\ earlier = Null
  /\ peer = Null
  /\ reason = Null
  /\ fired = {}

\* getQuirkReason(url, originalType, correctedType) is called
GetQuirkReasonCall ==
  /\ \E originalType \in ReasonTypes : \E correctedType \in ReasonTypes :
       reason' = Some([original |-> originalType,
                       corrected |-> correctedType,
                       value |-> GetQuirkReason(url, originalType, correctedType)])
  /\ UNCHANGED <<url, maxRetries, transport, pc, attempt, lastError, calls,
                 cycle, waits, outcome, options, earlier, peer, fired>>

NextReason == GetQuirkReasonCall

SpecReason == InitReason /\ [][NextReason]_vars

\* the cases in which the claim has getQuirkReason return null
NoReasonCase(call) ==
  call.original = call.corrected \/ call.corrected = Null

\* C32 as stated: getQuirkReason returns null if original equals corrected
\* or corrected is null; for every other input whose URL parses it returns
\* a description that names the CDN of the hostname and contains the
\* corrected value.
C32_Original ==
  reason.some =>
    LET call == reason.v IN
    /\ NoReasonCase(call) => call.value = Null
    /\ (~NoReasonCase(call) /\ UrlParses(url)) =>
         /\ call.value.some
         /\ Includes(call.value.v, call.corrected.v)
         /\ \/ Includes(call.value.v, TikTokName)
            \/ Includes(call.value.v, GoogleName)

\* C32: getQuirkReason returns null if original equals corrected or
\* corrected is null or the empty string; for every other input whose
\* hostname has the tiktokcdn or the googlevideo.com token it returns a
\* description that contains the corrected value and names TikTok when
\* the hostname has the tiktokcdn token and Google otherwise; for every
\* other URL, and for a string that is no URL, it returns null.
C32_Reason ==
  reason.some =>
    LET call == reason.v
        none == NoReasonCase(call) \/ call.corrected = Some(<<>>)
    IN /\ none => call.value = Null
       /\ (~none /\ IsTikTokCDN(url)) =>
            /\ call.value.some
            /\ Includes(call.value.v, call.corrected.v)
            /\ Includes(call.value.v, TikTokName)
       /\ (~none /\ ~IsTikTokCDN(url) /\ IsGoogleCDN(url)) =>
            /\ call.value.some
            /\ Includes(call.value.v, call.corrected.v)
            /\ Includes(call.value.v, GoogleName)
       /\ (~IsTikTokCDN(url) /\ ~IsGoogleCDN(url)) => call.value = Null

\* a Google description with the server's type in it
C32_Witness ==
  /\ reason.some
  /\ url = UrlGoogleCodecs
  /\ reason.v.original = Some(CtOctetStream)
  /\ reason.v.corrected = Some(CtAudioMpeg)
  /\ reason.v.value.some
  /\ Includes(reason.v.value.v, GoogleName)
  /\ Includes(reason.v.value.v, CtOctetStream)
  /\ Includes(reason.v.value.v, CtAudioMpeg)

(***************************************************************************)
(* The steps of one attempt cycle, one by one.                             *)
(***************************************************************************)
\* a 206 answer whose content-range is missing or yields no total size
Partial206NoSize(settled) ==
  /\ HasStatus(settled, {206})
  /\ ~ExtractSizeFromContentRange(settled.contentRange).some

\* C33: a 206 answer to the range request from which no total size can be
\* extracted (content-range missing or malformed) produces no result: the
\* attempt cycle goes on with the HEAD request; and every result with
\* method = "range" has a size and supportsRangeRequests = true.
C33_RangeNeedsSize ==
  /\ (Len(cycle) >= 1 /\ Partial206NoSize(cycle[1])) =>
       /\ Len(cycle) = 1 => (pc = "head" /\ outcome = NoOutcome)
       /\ Len(calls) >= CallsOfEarlierCycles + 2
       /\ calls[CallsOfEarlierCycles + 2] = HeadRequest
       /\ Returned => outcome.result.method # "range"
  /\ (Returned /\ outcome.result.method = "range") =>
       /\ outcome.result.size.some
       /\ outcome.result.supportsRangeRequests = TRUE

\* the 206 answer has a content-range without a total, and a content-length
C33_Witness ==
  /\ pc = "head"
  /\ transport.mode = "any"
  /\ Len(cycle) = 1
  /\ cycle[1].status = 206
  /\ cycle[1].contentRange = Some(CRNoTotal)
  /\ cycle[1].contentLength = Some(Chars1000)
  /\ calls = <<RangeRequest, HeadRequest>>

\* the error fetchWithTimeout throws for a rejection of the transport
TransportError(settled) ==
  IF settled.name = "AbortError" THEN TimeoutError ELSE NetworkError(Null)

\* the last settlement of the cycle after a step
Settling == cycle'[Len(cycle')]

\* C34: a transport-level failure (timeout or connection error) at the
\* range step or at the HEAD step is swallowed: it is not recorded as the
\* attempt's error, consumes no retry, triggers no backoff, and the same
\* attempt cycle goes on with the next method; a transport-level failure at
\* the GET step propagates, as a TimeoutError or a NetworkError without
\* status code.
C34_Step ==
  (Len(cycle') = Len(cycle) + 1 /\ IsRejection(Settling)) =>
    /\ pc \in {"range", "head"} =>
         /\ lastError' = lastError
         /\ attempt' = attempt
         /\ waits' = waits
         /\ outcome' = NoOutcome
         /\ pc' = IF pc = "range" THEN "head" ELSE "get"
         /\ calls' = Append(calls, IF pc = "range" THEN HeadRequest
                                   ELSE GetRequest)
    /\ pc = "get" =>
         /\ lastError' = Some(TransportError(Settling))
         /\ pc' \in {"backoff", "done"}
         /\ pc' = "done" <=> attempt >= maxRetries
         /\ pc' = "done" => outcome' = Throw(TransportError(Settling))

C34_State ==
  (pc = "get" /\ IsRejection(cycle[1]) /\ IsRejection(cycle[2])) =>
    /\ attempt = Len(waits) + 1
    /\ Len(calls) = 3 * attempt

C34_Swallowed == []C34_State /\ [][C34_Step]_vars

\* a timeout at the range step and a connection error at the HEAD step of
\* the first cycle, and the GET request in flight
C34_Witness ==
  /\ pc = "get"
  /\ attempt = 1
  /\ cycle = <<[kind |-> "reject", name |-> "AbortError"],
               [kind |-> "reject", name |-> "TypeError"]>>
  /\ lastError = Null
  /\ waits = <<>>
  /\ calls = <<RangeRequest, HeadRequest, GetRequest>>

\* C35: a GET-step success (2xx, 206 included) reports as size the total
\* of content-range when one can be extracted (also when a content-length
\* is present), otherwise the content-length value, and no size when
\* neither parses; it reports supportsRangeRequests = true exactly when
\* accept-ranges is bytes or the status is 206.
C35_GetSuccess ==
  /\ (Len(cycle) = 3 /\ Is2xx(cycle[3])) =>
       (Returned /\ outcome.result.method = "get")
  /\ (Returned /\ outcome.result.method = "get") =>
       LET response == LastAnswer
           result == outcome.result
           total == ExtractSizeFromContentRange(response.contentRange)
           length == ExtractSizeFromContentLength(response.contentLength)
       IN /\ Len(cycle) = 3 /\ Is2xx(response)
          /\ total.some => result.size = total
          /\ (~total.some) => result.size = length
          /\ result.supportsRangeRequests
               = (response.acceptRanges = Some("bytes") \/ response.status = 206)
          /\ (/\ response.contentRange = Some(CRValid)
              /\ response.contentLength = Some(CharsOne))
               => result.size = Some(1000)
          /\ (/\ response.contentRange = Some(CRNoTotal)
              /\ response.contentLength = Some(Chars1000))
               => result.size = Some(1000) /\ result.supportsRangeRequests
          /\ (response.contentRange = Null /\ response.contentLength = Null)
               => result.size = Null
          /\ (response.status = 200 /\ response.acceptRanges = Null)
               => ~result.supportsRangeRequests

\* the GET answer is a 206 whose content-range total is 1000 and whose
\* content-length is 1
C35_Witness ==
  /\ Returned
  /\ outcome.result.method = "get"
  /\ LastAnswer.status = 206
  /\ LastAnswer.contentRange = Some(CRValid)
  /\ LastAnswer.contentLength = Some(CharsOne)
  /\ outcome.result.size = Some(1000)
  /\ outcome.result.supportsRangeRequests

\* C36: at the HEAD step, status 405 and every other non-2xx status make
\* the attempt cycle go on with the GET request without raising; every 2xx
\* HEAD response ends the probe with method = "head", also when it carries
\* no content-length: size is then absent and no GET request is made.
C36_HeadStep ==
  /\ (Len(cycle) >= 2 /\ IsResponse(cycle[2]) /\ ~Is2xx(cycle[2])) =>
       /\ Len(calls) = CallsOfEarlierCycles + 3
       /\ LastCall = GetRequest
       /\ Len(cycle) = 2 => (pc = "get" /\ outcome = NoOutcome)
       /\ Returned => outcome.result.method = "get"
  /\ (Len(cycle) >= 2 /\ Is2xx(cycle[2])) =>
       /\ Returned
       /\ Len(cycle) = 2
       /\ outcome.result.method = "head"
       /\ Len(calls) = CallsOfEarlierCycles + 2
       /\ LastCall = HeadRequest
       /\ outcome.result.size = ExtractSizeFromContentLength(cycle[2].contentLength)
       /\ cycle[2].contentLength = Null => outcome.result.size = Null

\* a 200 HEAD answer without content-length, after a failed range request
C36_Witness ==
  /\ Returned
  /\ transport.mode = "any"
  /\ Len(cycle) = 2
  /\ IsRejection(cycle[1])
  /\ cycle[2].status = 200
  /\ cycle[2].contentLength = Null
  /\ outcome.result.method = "head"
  /\ outcome.result.size = Null
  /\ calls = <<RangeRequest, HeadRequest>>

\* the kinds of failure the claim calls retryable: a ServerError, a
\* TimeoutError, or a NetworkError proper without status code
RetryableKind(error) ==
  \/ error.cls \in {"ServerError", "TimeoutError"}
  \/ error.cls = "NetworkError" /\ error.statusCode = Null

\* the GET request settles to a failure of the attempt
GetFails ==
  /\ pc = "get"
  /\ Len(cycle') = 3
  /\ ~Is2xx(Settling)

\* C37: an attempt failure is retried if and only if it is a ServerError, a
\* TimeoutError or a NetworkError with no status code (and attempts
\* remain); a GET-step failure with a status code outside 4xx/5xx (a 3xx
\* response) is terminal: it is raised at once, with no backoff and no
\* further attempt cycle, whatever retry budget remains.
C37_Step ==
  GetFails =>
    /\ lastError'.some
    /\ LET error == lastError'.v IN
       /\ pc' = "backoff" <=> (RetryableKind(error) /\ attempt < maxRetries)
       /\ pc' \in {"backoff", "done"}
       /\ pc' = "done" =>
            /\ outcome' = Throw(error)
            /\ attempt' = attempt /\ waits' = waits /\ calls' = calls
       /\ HasStatus(Settling, 300..399) =>
            /\ error = NetworkError(Some(Settling.status))
            /\ pc' = "done"

C37_State ==
  /\ pc = "backoff" => (lastError.some /\ RetryableKind(lastError.v))
  /\ (Raised /\ Len(cycle) = 3 /\ HasStatus(cycle[3], 300..399)) =>
       /\ outcome.error.statusCode = Some(cycle[3].status)
       /\ Len(calls) = 3 * attempt
       /\ Len(waits) = attempt - 1

C37_RetryIff == []C37_State /\ [][C37_Step]_vars

\* a 301 at the GET step of the first cycle ends the call although two
\* attempts remain
C37_Witness ==
  /\ Raised
  /\ maxRetries = 3
  /\ attempt = 1
  /\ Len(cycle) = 3
  /\ HasStatus(cycle[3], {301})
  /\ outcome.error = NetworkError(Some(301))
  /\ waits = <<>>
  /\ Len(calls) = 3

\* the request that has the i-th place in calls when every cycle issues
\* its requests in order
RequestInPlace(i) ==
  CASE i % 3 = 1 -> RangeRequest
    [] i % 3 = 2 -> HeadRequest
    [] i % 3 = 0 -> GetRequest

\* C38: whatever the transport does, one call makes at most maxRetries
\* attempt cycles and at most 3 * maxRetries transport calls, with at most
\* one range, one HEAD and one GET request per cycle; every new cycle
\* starts again at the range request, so a later cycle can succeed via
\* range or head.
C38_State ==
  /\ attempt <= (IF maxRetries > 0 THEN maxRetries ELSE 0)
  /\ Len(calls) <= 3 * attempt
  /\ attempt >= 1 => Len(calls) > 3 * (attempt - 1)
  /\ \A i \in 1..Len(calls) : calls[i] = RequestInPlace(i)

C38_Step ==
  /\ attempt' \in {attempt, attempt + 1}
  /\ attempt' = attempt + 1 =>
       /\ calls' = Append(calls, RangeRequest)
       /\ Len(calls) = 3 * attempt
       /\ cycle' = <<>>
       /\ pc' = "range"
  /\ Len(calls') \in {Len(calls), Len(calls) + 1}

C38_BoundedCycles == []C38_State /\ [][C38_Step]_vars

\* the second cycle succeeds via range after a 503 at the GET step of the
\* first
C38_Witness ==
  /\ Returned
  /\ transport.mode = "any"
  /\ attempt = 2
  /\ waits = <<1000>>
  /\ Len(calls) = 4
  /\ calls[4] = RangeRequest
  /\ outcome.result.method = "range"
  /\ lastError = Some(ServerError(503))

(***************************************************************************)
(* The timers of completed requests.  createTimeoutController arms a timer *)
(* for every request and nothing clears it, so it fires whether or not the *)
(* request has completed; all timers have the same delay and fire in the   *)
(* order in which they were armed.  fired holds the requests whose timer   *)
(* has fired.                                                              *)
(***************************************************************************)
LateMaxRetries == 2

InitLate ==
  /\ url = UrlVideoMp4
  /\ maxRetries \in 1..LateMaxRetries
  /\ transport = [mode |-> "pool", pool |-> TimersPool]
  /\ pc = "start"
  /\ attempt = 0
  /\ lastError = Null
  /\ calls = <<>>
  /\ cycle = <<>>
  /\ waits = <<>>
  /\ outcome = NoOutcome
  /\ options = NoOptions
  /\ earlier = Null
  /\ peer = Null
  /\ reason = Null
  /\ fired = {}

\* the request in flight, or 0
RequestInFlight == IF pc \in {"range", "head", "get"} THEN Len(calls) ELSE 0

\* one controller for all requests: the timer of request i aborts the
\* signal of whichever request is in flight
SignalOfTimerShared(i) == IF RequestInFlight # 0 THEN RequestInFlight ELSE i

\* the request whose signal the timer of request i aborts: the controller
\* is a local of the fetchWithTimeout call that made request i
SignalOfTimer(i) == i

\* the timer of the earliest request whose timer is pending fires
TimerFires ==
  /\ \E i \in 1..Len(calls) :
       /\ i \notin fired
       /\ \A j \in 1..(i - 1) : j \in fired
       /\ fired' = fired \cup {i}
       /\ pc' = IF RequestInFlight # 0 /\ SignalOfTimer(i) = RequestInFlight
                THEN Aborted(pc)
                ELSE pc
  /\ UNCHANGED <<url, maxRetries, transport, attempt, lastError, calls, cycle,
                 waits, outcome, options, earlier, peer, reason>>

NextLate ==
  \/ Start
  \/ RangeSettles
  \/ HeadSettles
  \/ GetSettles
  \/ BackoffElapses
  \/ TimerFires

SpecLate == InitLate /\ [][NextLate]_vars

\* the timer that fires in a step
FiringTimer == CHOOSE i \in fired' : i \notin fired

\* C39: every request has its own controller and timer, and the timer is
\* not cancelled when its request completes; a timer that fires after its
\* request has completed changes nothing but that request's signal: no
\* later request, no later attempt cycle and no outcome fails or changes.
C39_Step ==
  /\ fired' # fired =>
       /\ fired' = fired \cup {FiringTimer}
       /\ FiringTimer # RequestInFlight =>
            UNCHANGED <<pc, attempt, lastError, calls, cycle, waits, outcome>>
       /\ FiringTimer = RequestInFlight =>
            /\ pc' = Aborted(pc)
            /\ UNCHANGED <<attempt, lastError, calls, cycle, waits, outcome>>
  /\ Done => outcome' = outcome
  /\ (Len(cycle') = Len(cycle) + 1 /\ Settling = AbortRejection) =>
       (Len(calls) \in fired /\ pc = Aborted(calls[Len(calls)].step))

C39_State ==
  /\ fired \subseteq 1..Len(calls)
  /\ pc \in {Aborted("range"), Aborted("head"), Aborted("get")} =>
       Len(calls) \in fired
  /\ \A i \in 1..Len(cycle) :
       cycle[i] = AbortRejection => (CallsOfEarlierCycles + i) \in fired

C39_OwnTimer == []C39_State /\ [][C39_Step]_vars

\* the timers of the range and HEAD requests of the first cycle fired after
\* both requests were answered and the call had returned via head
C39_Witness ==
  /\ Returned
  /\ attempt = 1
  /\ outcome.result.method = "head"
  /\ Len(calls) = 2
  /\ IsResponse(cycle[1]) /\ IsResponse(cycle[2])
  /\ fired = {1, 2}

\* the probe step ran applyPlatformQuirks
QuirksOn == options.allowPlatformQuirks = Some(TRUE)

\* the content type of the result is the normalized server content type
ServerTypeKept ==
  outcome.result.contentType = NormalizeContentType(LastAnswer.contentType)

\* C40 as stated: for a tiktokcdn URL whose query declares a MIME type the
\* result has no content type when the server gives none, a hostname with
\* both CDN tokens included; for a URL on neither CDN, or with the
\* platform quirks off, the result has the normalized server content type.
C40_Original ==
  Returned =>
    /\ (/\ QuirksOn
        /\ IsTikTokCDN(url)
        /\ ExtractMimeTypeFromQuery(url).some
        /\ LastAnswer.contentType = Null) => outcome.result.contentType = Null
    /\ (~QuirksOn \/ (~IsTikTokCDN(url) /\ ~IsGoogleCDN(url))) => ServerTypeKept

\* C40: for a URL whose hostname has the tiktokcdn token and not the
\* googlevideo.com token and whose query declares a MIME type, the result
\* has no content type when the server gives none: the query type does not
\* fill in for a missing server type; for a URL on neither CDN, or with the
\* platform quirks off, the result has the normalized server content type.
C40_NoFillIn ==
  /\ ExtractMimeTypeFromQuery(UrlTikTokAudio) = Some(CtAudioMpeg)
  /\ Returned =>
       /\ (/\ QuirksOn
           /\ IsTikTokCDN(url) /\ ~IsGoogleCDN(url)
           /\ ExtractMimeTypeFromQuery(url).some
           /\ LastAnswer.contentType = Null) => outcome.result.contentType = Null
       /\ (~QuirksOn \/ (~IsTikTokCDN(url) /\ ~IsGoogleCDN(url))) => ServerTypeKept

\* the tiktokcdn URL declares audio_mpeg, the server sends no content-type
C40_Witness ==
  /\ Returned
  /\ QuirksOn
  /\ url = UrlTikTokAudio
  /\ LastAnswer.contentType = Null
  /\ outcome.result.contentType = Null

==========================================================================
